---- MODULE Spec2Model ----
(***************************************************************************)
(* A model of rox, a bytecode virtual machine for the Lox language:        *)
(* scanner (src/src/scanner.rs), single-pass compiler                      *)
(* (src/src/compiler.rs) and interpreter (src/src/vm.rs).                  *)
(*                                                                         *)
(* The compiler is a machine that does one parsing task per step; the VM   *)
(* is a machine with one action per opcode.                                *)
(***************************************************************************)
EXTENDS Integers, Sequences, FiniteSets, TLC

(***************************************************************************)
(* Opcodes, numbered in the order of the OpCode enum (chunk.rs).           *)
(***************************************************************************)
OpConstant == 0
OpNil == 1
OpTrue == 2
OpFalse == 3
OpPop == 4
OpGetLocal == 5
OpSetLocal == 6
OpGetGlobal == 7
OpDefineGlobal == 8
OpSetGlobal == 9
OpGetUpvalue == 10
OpSetUpvalue == 11
OpGetProperty == 12
OpSetProperty == 13
OpGetSuper == 14
OpEqual == 15
OpGreater == 16
OpLess == 17
OpAdd == 18
OpSubtract == 19
OpMultiply == 20
OpDivide == 21
OpNot == 22
OpNegate == 23
OpPrint == 24
OpJump == 25
OpJumpIfFalse == 26
OpLoop == 27
OpCall == 28
OpInvoke == 29
OpSuperInvoke == 30
OpClosure == 31
OpCloseUpvalue == 32
OpReturn == 33
OpClass == 34
OpInherit == 35
OpMethod == 36

FRAME_MAX == 64
STACK_MAX == FRAME_MAX * 256

U8_MAX == 255
U16_MAX == 65535

(***************************************************************************)
(* Values (value.rs): a tag and a payload.  The payload of a heap variant   *)
(* is the handle (index into the heap), of a Bool 0 or 1.                   *)
(***************************************************************************)
Nil == [t |-> "Nil", v |-> 0]
Bool(b) == [t |-> "Bool", v |-> IF b THEN 1 ELSE 0]
Number(n) == [t |-> "Number", v |-> n]
Obj(tag, h) == [t |-> tag, v |-> h]
NativeClock == [t |-> "NativeFunction", v |-> 0]

is_falsey(x) == x.t = "Nil" \/ (x.t = "Bool" /\ x.v = 0)

\* Option<Value>
None == [some |-> FALSE, val |-> Nil]
Some(x) == [some |-> TRUE, val |-> x]

\* Let(e, LAMBDA x : body): body with x bound to the value of e
Let(e, Body(_)) == Body(e)

Last(s) == s[Len(s)]
Front(s) == SubSeq(s, 1, Len(s) - 1)
RECURSIVE Reverse(_)
Reverse(s) == IF s = <<>> THEN <<>> ELSE Append(Reverse(Tail(s)), Head(s))

(***************************************************************************)
(* The heap (module gc): a growing sequence of objects; a handle is an      *)
(* index.  Strings are interned by content.                                 *)
(***************************************************************************)
GcAlloc(heap, object) == [heap |-> Append(heap, object), h |-> Len(heap) + 1]

StringHandles(heap, s) ==
    {h \in 1..Len(heap) : heap[h].k = "String" /\ heap[h].s = s}

GcIntern(heap, s) ==
    IF StringHandles(heap, s) # {}
    THEN [heap |-> heap, h |-> CHOOSE h \in StringHandles(heap, s) : TRUE]
    ELSE GcAlloc(heap, [k |-> "String", s |-> s])

(***************************************************************************)
(* Tokens (scanner.rs).                                                     *)
(***************************************************************************)
Token(kind, value, line) == [kind |-> kind, value |-> value, line |-> line]
DefaultToken == Token("Error", "", 0)

Digit == <<"0", "1", "2", "3", "4", "5", "6", "7", "8", "9">>
MaxNumber == 99
RECURSIVE Decimal(_)
Decimal(n) == IF n < 10 THEN Digit[n + 1]
              ELSE Decimal(n \div 10) \o Digit[(n % 10) + 1]
NumberLexemes == {Decimal(n) : n \in 0..MaxNumber}
\* str::parse::<f64> on a lexeme of decimal digits
ParseNumber(s) == CHOOSE n \in 0..MaxNumber : Decimal(n) = s

Punctuation ==
    [x \in {"(", ")", "{", "}", ";", ",", ".", "-", "+", "/", "*",
            "!", "!=", "=", "==", "<", "<=", ">", ">="} |->
       CASE x = "(" -> "LeftParen" [] x = ")" -> "RightParen"
         [] x = "{" -> "LeftBrace" [] x = "}" -> "RightBrace"
         [] x = ";" -> "Semicolon" [] x = "," -> "Comma"
         [] x = "." -> "Dot" [] x = "-" -> "Minus" [] x = "+" -> "Plus"
         [] x = "/" -> "Slash" [] x = "*" -> "Star"
         [] x = "!" -> "Bang" [] x = "!=" -> "BangEqual"
         [] x = "=" -> "Equal" [] x = "==" -> "EqualEqual"
         [] x = "<" -> "Less" [] x = "<=" -> "LessEqual"
         [] x = ">" -> "Greater" [] x = ">=" -> "GreaterEqual"]

identifier_type(x) ==
    CASE x = "and" -> "And" [] x = "class" -> "Class" [] x = "else" -> "Else"
      [] x = "false" -> "False" [] x = "for" -> "For" [] x = "fun" -> "Fun"
      [] x = "if" -> "If" [] x = "nil" -> "Nil" [] x = "or" -> "Or"
      [] x = "print" -> "Print" [] x = "return" -> "Return"
      [] x = "super" -> "Super" [] x = "this" -> "This" [] x = "true" -> "True"
      [] x = "var" -> "Var" [] x = "while" -> "While"
      [] OTHER -> "Identifier"

(***************************************************************************)
(* The token stream the scanner yields for a source given as its sequence   *)
(* of lexemes: "\"" announces that the next element is the contents of a    *)
(* string literal, "\n" is a line break, "?" an unexpected character.  The  *)
(* stream ends with one Eof token; after it the scanner yields None.        *)
(***************************************************************************)
\* the line the lexeme at index i is on
LineAt(words, i) == 1 + Cardinality({j \in 1..(i - 1) : words[j] = "\n"})
\* the lexeme at index i is the contents of a string literal
IsContents(words, i) == i > 1 /\ words[i - 1] = "\""
\* the lexeme at index i is a token (not a line break, not the string marker)
IsToken(words, i) == IsContents(words, i) \/ words[i] \notin {"\n", "\""}
TokenAt(words, i) ==
    IF IsContents(words, i) THEN Token("String", words[i], LineAt(words, i))
    ELSE IF words[i] = "?"
    THEN Token("Error", "Unexpected character", LineAt(words, i))
    ELSE IF words[i] \in DOMAIN Punctuation
    THEN Token(Punctuation[words[i]], words[i], LineAt(words, i))
    ELSE IF words[i] \in NumberLexemes
    THEN Token("Number", words[i], LineAt(words, i))
    ELSE Token(identifier_type(words[i]), words[i], LineAt(words, i))
Tokens(words) ==
    LET kept == SelectSeq([i \in 1..Len(words) |-> i],
                          LAMBDA i : IsToken(words, i))
    IN [n \in 1..Len(kept) |-> TokenAt(words, kept[n])]
       \o <<Token("Eof", "", LineAt(words, Len(words) + 1))>>

(***************************************************************************)
(* Compiler (compiler.rs).  The parser state P is a record:                 *)
(*   toks, pos     the scanner: its token stream and the next index         *)
(*   previous, current, had_error, panic_mode        as in struct Parser    *)
(*   comps         the chain of Compilers, innermost last (enclosing links) *)
(*   classes       the chain of ClassCompilers, innermost last              *)
(*   diags         the diagnostics written to stderr                        *)
(*   heap          the Gc the parser allocates in                           *)
(*   ks, ret       the position of control inside compile (see below)       *)
(***************************************************************************)
PrecNone == 0
PrecAssignment == 1
PrecOr == 2
PrecAnd == 3
PrecEquality == 4
PrecComparison == 5
PrecTerm == 6
PrecFactor == 7
PrecUnary == 8
PrecCall == 9

Local(name, depth) == [name |-> name, depth |-> depth, is_captured |-> FALSE]

FunctionNew(name) ==
    [k |-> "Function", arity |-> 0, code |-> <<>>, constants |-> <<>>,
     lines |-> <<>>, name |-> name, upvalues |-> <<>>]

CompilerNew(ftype, name) ==
    [locals |-> <<Local(IF ftype # "Function" THEN "this" ELSE "", 0)>>,
     scope_depth |-> 0,
     function |-> FunctionNew(name),
     function_type |-> ftype]

ParserNew(source, heap) ==
    LET n == GcIntern(heap, "script") IN
    [toks |-> Tokens(source), pos |-> 1,
     previous |-> DefaultToken, current |-> DefaultToken,
     comps |-> <<CompilerNew("Script", n.h)>>,
     classes |-> <<>>,
     had_error |-> FALSE, panic_mode |-> FALSE,
     diags |-> <<>>, heap |-> n.heap, overflow |-> FALSE,
     ks |-> <<[k |-> "compile"]>>, ret |-> 0]

Cur(P) == P.comps[Len(P.comps)]
Code(P) == Cur(P).function.code

error_at(P, token, message) ==
    IF P.panic_mode THEN P
    ELSE [P EXCEPT !.panic_mode = TRUE, !.had_error = TRUE,
                   !.diags = Append(@, [line |-> token.line, kind |-> token.kind,
                                        at |-> token.value, msg |-> message])]
error(P, message) == error_at(P, P.previous, message)
error_at_current(P, message) == error_at(P, P.current, message)

RECURSIVE report_all(_, _)
report_all(P, errs) ==
    IF errs = <<>> THEN P ELSE report_all(error(P, Head(errs)), Tail(errs))

\* The loop of advance: take tokens until one is not an Error token; when the
\* scanner yields None the loop ends and current keeps what it holds.
RECURSIVE advance_loop(_)
advance_loop(P) ==
    IF P.pos > Len(P.toks) THEN P
    ELSE LET P1 == [P EXCEPT !.current = P.toks[P.pos], !.pos = @ + 1] IN
         IF P1.current.kind # "Error" THEN P1
         ELSE advance_loop(error_at_current(P1, P1.current.value))

advance(P) ==
    advance_loop([P EXCEPT !.previous = P.current, !.current = DefaultToken])

check(P, kind) == P.current.kind = kind

consume(P, kind, message) ==
    IF P.current.kind = kind THEN advance(P) ELSE error_at_current(P, message)

emit_byte(P, byte) ==
    [P EXCEPT !.comps[Len(P.comps)].function.code = Append(@, byte),
              !.comps[Len(P.comps)].function.lines = Append(@, P.previous.line)]

emit_bytes(P, b1, b2) == emit_byte(emit_byte(P, b1), b2)

\* emit_jump returns the offset of the operand: code.len() - 2
emit_jump(P, op) == emit_byte(emit_byte(emit_byte(P, op), 255), 255)
jump_offset(P) == Len(Code(P)) - 2

emit_loop(P, loop_start) ==
    LET P1 == emit_byte(P, OpLoop)
        offset == Len(Code(P1)) - loop_start + 2
        P2 == IF offset > U16_MAX THEN error(P1, "Loop body too large.") ELSE P1
    IN emit_byte(emit_byte(P2, (offset \div 256) % 256), offset % 256)

\* emit_return without the case of an initializer
emit_return_nil(P) == emit_byte(emit_byte(P, OpNil), OpReturn)

emit_return(P) ==
    emit_byte(IF Cur(P).function_type = "Initializer"
              THEN emit_bytes(P, OpGetLocal, 0)
              ELSE emit_byte(P, OpNil),
              OpReturn)

\* make_constant: [p, v] with v the constant's index as a byte
make_constant(P, value) ==
    LET index == Len(Cur(P).function.constants)
        P1 == [P EXCEPT !.comps[Len(P.comps)].function.constants = Append(@, value)]
    IN IF index <= U8_MAX THEN [p |-> P1, v |-> index]
       ELSE [p |-> error(P1, "Too many constants in one chunk."), v |-> 0]

emit_constant(P, value) ==
    LET mc == make_constant(P, value) IN emit_bytes(mc.p, OpConstant, mc.v)

\* patch_jump that measures the jump from the first operand byte
patch_jump_from_operand(P, offset) ==
    LET jump == Len(Code(P)) - offset
        P1 == IF jump > U16_MAX THEN error(P, "Too much code to jump over.") ELSE P
    IN [P1 EXCEPT !.comps[Len(P.comps)].function.code =
            [@ EXCEPT ![offset + 1] = (jump \div 256) % 256,
                      ![offset + 2] = jump % 256]]
patch_jump(P, offset) ==
    LET jump == Len(Code(P)) - offset - 2
        P1 == IF jump > U16_MAX THEN error(P, "Too much code to jump over.") ELSE P
    IN [P1 EXCEPT !.comps[Len(P.comps)].function.code =
            [@ EXCEPT ![offset + 1] = (jump \div 256) % 256,
                      ![offset + 2] = jump % 256]]

identifier_constant(P, name) ==
    LET n == GcIntern(P.heap, name) IN
    make_constant([P EXCEPT !.heap = n.heap], Obj("String", n.h))

begin_scope(P) == [P EXCEPT !.comps[Len(P.comps)].scope_depth = @ + 1]

\* end_scope: one CLOSE_UPVALUE or POP per local deeper than the scope left
RECURSIVE end_scope_loop(_, _)
end_scope_loop(P, i) ==
    IF i < 1 THEN P
    ELSE IF i <= Len(Cur(P).locals) /\ Cur(P).locals[i].depth > Cur(P).scope_depth
         THEN LET P1 == emit_byte(P, IF Cur(P).locals[i].is_captured
                                      THEN OpCloseUpvalue ELSE OpPop)
              IN end_scope_loop(
                    [P1 EXCEPT !.comps[Len(P.comps)].locals = Front(@)], i - 1)
         ELSE end_scope_loop(P, i - 1)

\* end_scope that goes through the locals from the lowest slot up
RECURSIVE end_scope_loop_up(_, _, _)
end_scope_loop_up(P, i, kept) ==
    IF i > Len(Cur(P).locals)
    THEN [P EXCEPT !.comps[Len(P.comps)].locals = SubSeq(@, 1, kept)]
    ELSE IF Cur(P).locals[i].depth > Cur(P).scope_depth
         THEN end_scope_loop_up(emit_byte(P, IF Cur(P).locals[i].is_captured
                                             THEN OpCloseUpvalue ELSE OpPop),
                                i + 1, kept)
         ELSE end_scope_loop_up(P, i + 1, i)
end_scope_lowest_first(P) ==
    end_scope_loop_up([P EXCEPT !.comps[Len(P.comps)].scope_depth = @ - 1], 1, 0)

end_scope(P) ==
    LET P1 == [P EXCEPT !.comps[Len(P.comps)].scope_depth = @ - 1]
    IN end_scope_loop(P1, Len(Cur(P1).locals))

\* Compiler::resolve_local: [found, idx, errs]
Max(S) == CHOOSE x \in S : \A y \in S : y <= x
Min(S) == CHOOSE x \in S : \A y \in S : x <= y

compiler_resolve_local(C, name) ==
    LET named == {i \in 1..Len(C.locals) : C.locals[i].name = name} IN
    IF named = {} THEN [found |-> FALSE, idx |-> 0, errs |-> <<>>]
    ELSE [found |-> TRUE, idx |-> (Max(named) - 1) % 256,
          errs |-> IF C.locals[Max(named)].depth = -1
                   THEN <<"Can't read local variable in its own initializer.">>
                   ELSE <<>>]

\* add_upvalue that adds a descriptor each time
add_upvalue_always(C, index, is_local) ==
    LET ups == C.function.upvalues
    IN [c |-> [C EXCEPT !.function.upvalues =
                   Append(@, [index |-> index, is_local |-> is_local])],
        idx |-> Len(ups) % 256,
        errs |-> IF Len(ups) = 256
                 THEN <<"Too many closure variables in function.">> ELSE <<>>]

\* Compiler::add_upvalue: [c, idx, errs]
add_upvalue(C, index, is_local) ==
    LET ups == C.function.upvalues
        same == {i \in 1..Len(ups) : ups[i].index = index /\ ups[i].is_local = is_local}
    IN IF same # {}
       THEN [c |-> C, idx |-> (Min(same) - 1) % 256,
             errs |-> <<>>]
       ELSE [c |-> [C EXCEPT !.function.upvalues =
                        Append(@, [index |-> index, is_local |-> is_local])],
             idx |-> Len(ups) % 256,
             errs |-> IF Len(ups) = 256
                      THEN <<"Too many closure variables in function.">> ELSE <<>>]

\* Compiler::resolve_upvalue on the compiler at level lvl of the chain:
\* [comps, found, idx, errs]
RECURSIVE compiler_resolve_upvalue(_, _, _)
compiler_resolve_upvalue(comps, lvl, name) ==
    IF lvl = 1 THEN [comps |-> comps, found |-> FALSE, idx |-> 0, errs |-> <<>>]
    ELSE LET rl == compiler_resolve_local(comps[lvl - 1], name) IN
         IF rl.found
         THEN LET c1 == [comps EXCEPT ![lvl - 1].locals[rl.idx + 1].is_captured = TRUE]
                  au == add_upvalue(c1[lvl], rl.idx, TRUE)
              IN [comps |-> [c1 EXCEPT ![lvl] = au.c], found |-> TRUE,
                  idx |-> au.idx, errs |-> rl.errs \o au.errs]
         ELSE LET ru == compiler_resolve_upvalue(comps, lvl - 1, name) IN
              IF ru.found
              THEN LET au == add_upvalue(ru.comps[lvl], ru.idx, FALSE)
                   IN [comps |-> [ru.comps EXCEPT ![lvl] = au.c], found |-> TRUE,
                       idx |-> au.idx, errs |-> ru.errs \o au.errs]
              ELSE [comps |-> ru.comps, found |-> FALSE, idx |-> 0, errs |-> ru.errs]

\* is_local_declared that looks at the locals of every scope
is_local_declared_any_scope(C, name) ==
    \E i \in 1..Len(C.locals) : C.locals[i].name = name

\* Compiler::is_local_declared
\* the loop runs from the last local down; it ends with false at the first
\* local of an enclosing scope, with true at the first local called name
is_local_declared(C, name) ==
    LET outer == {i \in 1..Len(C.locals) :
                    C.locals[i].depth # -1 /\ C.locals[i].depth < C.scope_depth}
        named == {i \in 1..Len(C.locals) : C.locals[i].name = name}
    IN named # {} /\ (outer = {} \/ Max(outer) < Max(named))

add_local(P, name) ==
    IF Len(Cur(P).locals) = U8_MAX + 1
    THEN error(P, "Too many local variables in function.")
    ELSE [P EXCEPT !.comps[Len(P.comps)].locals = Append(@, Local(name, -1))]

declare_variable(P) ==
    IF Cur(P).scope_depth = 0 THEN P
    ELSE LET name == P.previous.value
             P1 == IF is_local_declared(Cur(P), name)
                   THEN error(P, "Already a variable with this name in this scope.")
                   ELSE P
         IN add_local(P1, name)

mark_initialized(P) ==
    IF Cur(P).scope_depth = 0 THEN P
    ELSE [P EXCEPT !.comps[Len(P.comps)].locals[Len(Cur(P).locals)].depth =
                        Cur(P).scope_depth]

define_variable(P, global) ==
    IF Cur(P).scope_depth > 0 THEN mark_initialized(P)
    ELSE emit_bytes(P, OpDefineGlobal, global)

\* parse_variable: [p, v]
parse_variable(P, message) ==
    Let(declare_variable(consume(P, "Identifier", message)), LAMBDA P1 :
        IF Cur(P1).scope_depth > 0 THEN [p |-> P1, v |-> 0]
        ELSE identifier_constant(P1, P1.previous.value))

(***************************************************************************)
(* The Pratt parser.  ParseRule::get_rule as two tables.                    *)
(***************************************************************************)
rule_precedence(kind) ==
    CASE kind \in {"LeftParen", "Dot"} -> PrecCall
      [] kind \in {"Minus", "Plus"} -> PrecTerm
      [] kind \in {"Slash", "Star"} -> PrecFactor
      [] kind \in {"BangEqual", "EqualEqual"} -> PrecEquality
      [] kind \in {"Greater", "GreaterEqual", "Less", "LessEqual"} -> PrecComparison
      [] kind = "And" -> PrecAnd
      [] kind = "Or" -> PrecOr
      [] OTHER -> PrecNone

has_prefix(kind) ==
    kind \in {"LeftParen", "Minus", "Bang", "Identifier", "String", "Number",
              "False", "Nil", "True", "Super", "This"}

(***************************************************************************)
(* The recursive descent of the parser, as a machine: P.ks is the stack of  *)
(* tasks still to do, the last one first.  A task is the start of a parsing *)
(* function or the rest of one after a call it makes has returned; it       *)
(* carries the locals that function still needs.  P.ret is the value the    *)
(* last finished function returned (argument_list's count).                 *)
(***************************************************************************)
Task(k) == [k |-> k]
\* do task next
Do(P, task) == [P EXCEPT !.ks = Append(@, task)]
\* do task, and after it the task rest
DoThen(P, task, rest) == [P EXCEPT !.ks = @ \o <<rest, task>>]

PrecedenceTask(precedence) == [k |-> "parse_precedence", precedence |-> precedence]
expression == PrecedenceTask(PrecAssignment)

\* named_variable: the operand and the opcodes come from resolve_local,
\* resolve_upvalue or identifier_constant; an assignment compiles the value
\* first
named_variable_emit(P, can_assign, get_op, set_op, arg) ==
    IF can_assign /\ check(P, "Equal")
    THEN DoThen(advance(P), expression,
                [k |-> "named_variable_set", op |-> set_op, arg |-> arg])
    ELSE emit_bytes(P, get_op, arg)

named_variable_set(P, t) == emit_bytes(P, t.op, t.arg)

named_variable_global(P, name, can_assign) ==
    Let(identifier_constant(P, name), LAMBDA ic :
        named_variable_emit(ic.p, can_assign, OpGetGlobal, OpSetGlobal, ic.v))

named_variable_upvalue(P, name, can_assign) ==
    Let(compiler_resolve_upvalue(P.comps, Len(P.comps), name), LAMBDA ru :
    Let(report_all([P EXCEPT !.comps = ru.comps], Reverse(ru.errs)), LAMBDA P2 :
        IF ru.found
        THEN named_variable_emit(P2, can_assign, OpGetUpvalue, OpSetUpvalue, ru.idx)
        ELSE named_variable_global(P2, name, can_assign)))

named_variable(P, name, can_assign) ==
    Let(compiler_resolve_local(Cur(P), name), LAMBDA rl :
    Let(report_all(P, Reverse(rl.errs)), LAMBDA P1 :
        IF rl.found
        THEN named_variable_emit(P1, can_assign, OpGetLocal, OpSetLocal, rl.idx)
        ELSE named_variable_upvalue(P1, name, can_assign)))

variable(P, can_assign) == named_variable(P, P.previous.value, can_assign)

grouping(P) == DoThen(P, expression, Task("grouping_end"))
grouping_end(P, t) == consume(P, "RightParen", "Expect ')' after expression.")

number(P) == emit_constant(P, Number(ParseNumber(P.previous.value)))

string(P) ==
    Let(GcIntern(P.heap, P.previous.value), LAMBDA n :
        emit_constant([P EXCEPT !.heap = n.heap], Obj("String", n.h)))

literal(P) ==
    emit_byte(P, CASE P.previous.kind = "False" -> OpFalse
                   [] P.previous.kind = "Nil" -> OpNil
                   [] P.previous.kind = "True" -> OpTrue)

unary(P) ==
    DoThen(P, PrecedenceTask(PrecUnary),
           [k |-> "unary_end", operator |-> P.previous.kind])
unary_end(P, t) ==
    emit_byte(P, CASE t.operator = "Bang" -> OpNot
                   [] t.operator = "Minus" -> OpNegate)

\* argument_list: the count is a u8 and is returned in P.ret.  arg_count += 1
\* overflows when the count is 255: P.overflow is set, and the count is what
\* a build without overflow checks gives
argument_list(P) ==
    IF ~check(P, "RightParen")
    THEN DoThen(P, expression, [k |-> "argument_list_loop", arg_count |-> 0])
    ELSE [consume(P, "RightParen", "Expect ')' after arguments.") EXCEPT !.ret = 0]

argument_list_loop(P, t) ==
    Let(IF t.arg_count = U8_MAX
        THEN [error(P, "Can't have more than 255 arguments.") EXCEPT !.overflow = TRUE]
        ELSE P, LAMBDA P1 :
        IF check(P1, "Comma")
        THEN DoThen(advance(P1), expression,
                    [k |-> "argument_list_loop",
                     arg_count |-> (t.arg_count + 1) % 256])
        ELSE [consume(P1, "RightParen", "Expect ')' after arguments.")
                 EXCEPT !.ret = (t.arg_count + 1) % 256])

super_(P) ==
    Let(IF P.classes = <<>>
        THEN error(P, "Can't use 'super' outside of a class.")
        ELSE IF ~Last(P.classes).has_superclass
        THEN error(P, "Can't use 'super' in a class with no superclass.")
        ELSE P, LAMBDA P1 :
    Let(consume(consume(P1, "Dot", "Expect '.' after 'super'."),
                "Identifier", "Expect superclass method name."), LAMBDA P3 :
    Let(identifier_constant(P3, P3.previous.value), LAMBDA ic :
    Let(named_variable(ic.p, "this", FALSE), LAMBDA P4 :
        IF check(P4, "LeftParen")
        THEN Do(Do(advance(P4), [k |-> "super_invoke", name |-> ic.v]),
                Task("argument_list"))
        ELSE emit_bytes(named_variable(P4, "super", FALSE), OpGetSuper, ic.v)))))

super_invoke(P, t) ==
    emit_byte(emit_bytes(named_variable(P, "super", FALSE), OpSuperInvoke, t.name),
              P.ret)

this(P) ==
    IF P.classes = <<>> THEN error(P, "Can't use 'this' outside of a class.")
    ELSE variable(P, FALSE)

binary(P) ==
    DoThen(P, PrecedenceTask(rule_precedence(P.previous.kind) + 1),
           [k |-> "binary_end", operator |-> P.previous.kind])

binary_end(P, t) ==
    CASE t.operator = "BangEqual" -> emit_bytes(P, OpEqual, OpNot)
      [] t.operator = "EqualEqual" -> emit_byte(P, OpEqual)
      [] t.operator = "Greater" -> emit_byte(P, OpGreater)
      [] t.operator = "GreaterEqual" -> emit_bytes(P, OpLess, OpNot)
      [] t.operator = "Less" -> emit_byte(P, OpLess)
      [] t.operator = "LessEqual" -> emit_bytes(P, OpGreater, OpNot)
      [] t.operator = "Plus" -> emit_byte(P, OpAdd)
      [] t.operator = "Minus" -> emit_byte(P, OpSubtract)
      [] t.operator = "Star" -> emit_byte(P, OpMultiply)
      [] t.operator = "Slash" -> emit_byte(P, OpDivide)

call(P) == Do(Do(P, Task("call_end")), Task("argument_list"))
call_end(P, t) == emit_bytes(P, OpCall, P.ret)

dot(P, can_assign) ==
    Let(consume(P, "Identifier", "Expect property name after '.'."), LAMBDA P1 :
    Let(identifier_constant(P1, P1.previous.value), LAMBDA ic :
        IF can_assign /\ check(ic.p, "Equal")
        THEN DoThen(advance(ic.p), expression, [k |-> "dot_set", name |-> ic.v])
        ELSE IF check(ic.p, "LeftParen")
        THEN Do(Do(advance(ic.p), [k |-> "dot_invoke", name |-> ic.v]),
                Task("argument_list"))
        ELSE emit_bytes(ic.p, OpGetProperty, ic.v)))
dot_set(P, t) == emit_bytes(P, OpSetProperty, t.name)
dot_invoke(P, t) == emit_byte(emit_bytes(P, OpInvoke, t.name), P.ret)

and(P) ==
    Let(emit_jump(P, OpJumpIfFalse), LAMBDA P1 :
        DoThen(emit_byte(P1, OpPop), PrecedenceTask(PrecAnd),
               [k |-> "and_end", end_jump |-> jump_offset(P1)]))
and_end(P, t) == patch_jump(P, t.end_jump)

\* Parser::or that compiles its right operand as Parser::and does
or_as_and(P) ==
    Let(emit_jump(P, OpJumpIfFalse), LAMBDA P1 :
        DoThen(emit_byte(P1, OpPop), PrecedenceTask(PrecOr),
               [k |-> "and_end", end_jump |-> jump_offset(P1)]))
or(P) ==
    Let(emit_jump(P, OpJumpIfFalse), LAMBDA P1 :
    Let(emit_jump(P1, OpJump), LAMBDA P2 :
        DoThen(emit_byte(patch_jump(P2, jump_offset(P1)), OpPop),
               PrecedenceTask(PrecOr),
               [k |-> "or_end", end_jump |-> jump_offset(P2)])))
or_end(P, t) == patch_jump(P, t.end_jump)

prefix_rule(P, kind, can_assign) ==
    CASE kind = "LeftParen" -> grouping(P)
      [] kind \in {"Minus", "Bang"} -> unary(P)
      [] kind = "Identifier" -> variable(P, can_assign)
      [] kind = "String" -> string(P)
      [] kind = "Number" -> number(P)
      [] kind \in {"False", "Nil", "True"} -> literal(P)
      [] kind = "Super" -> super_(P)
      [] kind = "This" -> this(P)

infix_rule(P, kind, can_assign) ==
    CASE kind = "LeftParen" -> call(P)
      [] kind = "Dot" -> dot(P, can_assign)
      [] kind = "And" -> and(P)
      [] kind = "Or" -> or(P)
      [] OTHER -> binary(P)

\* parse_precedence up to the call of the prefix rule; the loop over the
\* infix rules follows as the task infix_loop
parse_precedence(P0, t) ==
    Let(advance(P0), LAMBDA P :
        IF ~has_prefix(P.previous.kind) THEN error(P, "Expect expression.")
        ELSE prefix_rule(Do(P, [k |-> "infix_loop", precedence |-> t.precedence,
                                can_assign |-> t.precedence <= PrecAssignment]),
                         P.previous.kind, t.precedence <= PrecAssignment))

\* one turn of the while loop of parse_precedence, or what follows the loop
infix_loop(P, t) ==
    IF t.precedence <= rule_precedence(P.current.kind)
    THEN Let(advance(P), LAMBDA P1 :
             infix_rule(Do(P1, t), P1.previous.kind, t.can_assign))
    ELSE IF t.can_assign /\ check(P, "Equal")
    THEN error(advance(P), "Invalid assignment target.")
    ELSE P

(***************************************************************************)
(* Statements and declarations.                                             *)
(***************************************************************************)
expression_statement(P) == DoThen(P, expression, Task("expression_statement_end"))
expression_statement_end(P, t) ==
    emit_byte(consume(P, "Semicolon", "Expect ';' after expression."), OpPop)

print_statement(P) == DoThen(P, expression, Task("print_statement_end"))
print_statement_end(P, t) ==
    emit_byte(consume(P, "Semicolon", "Expect ';' after value."), OpPrint)

return_statement(P) ==
    Let(IF Cur(P).function_type = "Script"
        THEN error(P, "Can't return from top-level code.") ELSE P, LAMBDA P1 :
        IF check(P1, "Semicolon") THEN emit_return(advance(P1))
        ELSE DoThen(IF Cur(P1).function_type = "Initializer"
                    THEN error(P1, "Can't return a value from an initializer.")
                    ELSE P1,
                    expression, Task("return_statement_end")))
return_statement_end(P, t) ==
    emit_byte(consume(P, "Semicolon", "Expect ';' after return value."), OpReturn)

var_declaration_end(P, t) ==
    define_variable(consume(P, "Semicolon", "Expect ';' after variable declaration."),
                    t.global)
var_declaration(P) ==
    Let(parse_variable(P, "Expect variable name."), LAMBDA pv :
        IF check(pv.p, "Equal")
        THEN DoThen(advance(pv.p), expression,
                    [k |-> "var_declaration_end", global |-> pv.v])
        ELSE var_declaration_end(emit_byte(pv.p, OpNil), [global |-> pv.v]))

\* block: one turn of its loop, or what follows the loop
block(P, t) ==
    IF ~check(P, "RightBrace") /\ ~check(P, "Eof")
    THEN DoThen(P, Task("declaration"), t)
    ELSE consume(P, "RightBrace", "Expect '}' after block.")

if_statement(P) ==
    DoThen(consume(P, "LeftParen", "Expect '(' after 'if'."), expression,
           Task("if_statement_then"))
if_statement_then(P, t) ==
    Let(emit_jump(consume(P, "RightParen", "Expect ')' after condition."),
                  OpJumpIfFalse), LAMBDA P1 :
        DoThen(emit_byte(P1, OpPop), Task("statement"),
               [k |-> "if_statement_else", then_jump |-> jump_offset(P1)]))
if_statement_else(P, t) ==
    Let(emit_jump(P, OpJump), LAMBDA P1 :
    Let(emit_byte(patch_jump(P1, t.then_jump), OpPop), LAMBDA P2 :
        IF check(P2, "Else")
        THEN DoThen(advance(P2), Task("statement"),
                    [k |-> "if_statement_end", else_jump |-> jump_offset(P1)])
        ELSE patch_jump(P2, jump_offset(P1))))
if_statement_end(P, t) == patch_jump(P, t.else_jump)

while_statement(P) ==
    DoThen(consume(P, "LeftParen", "Expect '(' after 'while'."), expression,
           [k |-> "while_statement_body", loop_start |-> Len(Code(P))])
while_statement_body(P, t) ==
    Let(emit_jump(consume(P, "RightParen", "Expect ')' after condition."),
                  OpJumpIfFalse), LAMBDA P1 :
        DoThen(emit_byte(P1, OpPop), Task("statement"),
               [k |-> "while_statement_end", loop_start |-> t.loop_start,
                exit_jump |-> jump_offset(P1)]))
while_statement_end(P, t) ==
    emit_byte(patch_jump(emit_loop(P, t.loop_start), t.exit_jump), OpPop)

\* for_statement: the initializer clause, then the tasks for_condition,
\* for_increment, for_body, for_end; exit_jump = -1 stands for usize::MAX
for_body(P, loop_start, exit_jump) ==
    DoThen(P, Task("statement"),
           [k |-> "for_end", loop_start |-> loop_start, exit_jump |-> exit_jump])
for_increment(P, loop_start, exit_jump) ==
    IF ~check(P, "RightParen")
    THEN Let(emit_jump(P, OpJump), LAMBDA P1 :
             DoThen(P1, expression,
                    [k |-> "for_increment_end", loop_start |-> loop_start,
                     exit_jump |-> exit_jump, body_jump |-> jump_offset(P1),
                     increment_start |-> Len(Code(P1))]))
    ELSE for_body(advance(P), loop_start, exit_jump)
for_increment_end(P, t) ==
    for_body(patch_jump(emit_loop(consume(emit_byte(P, OpPop), "RightParen",
                                          "Expect ')' after for clauses."),
                                  t.loop_start),
                        t.body_jump),
             t.increment_start, t.exit_jump)
for_condition(P, t) ==
    IF ~check(P, "Semicolon")
    THEN DoThen(P, expression,
                [k |-> "for_condition_end", loop_start |-> Len(Code(P))])
    ELSE for_increment(advance(P), Len(Code(P)), -1)
for_condition_end(P, t) ==
    Let(emit_jump(consume(P, "Semicolon", "Expect ';' after loop condition."),
                  OpJumpIfFalse), LAMBDA P1 :
        for_increment(emit_byte(P1, OpPop), t.loop_start, jump_offset(P1)))
\* for_statement without a scope of its own
for_statement_unscoped(P) ==
    Let(consume(P, "LeftParen", "Expect '(' after 'for'."), LAMBDA P1 :
        IF check(P1, "Semicolon") THEN Do(advance(P1), Task("for_condition"))
        ELSE IF check(P1, "Var")
        THEN var_declaration(Do(advance(P1), Task("for_condition")))
        ELSE expression_statement(Do(P1, Task("for_condition"))))
for_statement(P) ==
    Let(consume(begin_scope(P), "LeftParen", "Expect '(' after 'for'."), LAMBDA P1 :
        IF check(P1, "Semicolon") THEN Do(advance(P1), Task("for_condition"))
        ELSE IF check(P1, "Var")
        THEN var_declaration(Do(advance(P1), Task("for_condition")))
        ELSE expression_statement(Do(P1, Task("for_condition"))))
for_end(P, t) ==
    Let(emit_loop(P, t.loop_start), LAMBDA P1 :
        end_scope(IF t.exit_jump # -1
                  THEN emit_byte(patch_jump(P1, t.exit_jump), OpPop)
                  ELSE P1))

block_statement_end(P, t) == end_scope(P)

statement(P, t) ==
    IF check(P, "Print") THEN print_statement(advance(P))
    ELSE IF check(P, "For") THEN for_statement(advance(P))
    ELSE IF check(P, "If") THEN if_statement(advance(P))
    ELSE IF check(P, "Return") THEN return_statement(advance(P))
    ELSE IF check(P, "While") THEN while_statement(advance(P))
    ELSE IF check(P, "LeftBrace")
    THEN DoThen(begin_scope(advance(P)), Task("block"), Task("block_statement_end"))
    ELSE expression_statement(P)

push_compiler(P, ftype) ==
    Let(GcIntern(P.heap, P.previous.value), LAMBDA n :
        [P EXCEPT !.heap = n.heap, !.comps = Append(@, CompilerNew(ftype, n.h))])

\* function: a new Compiler, then the parameters (one per task
\* function_parameter), the body, and function_end
function_body(P) ==
    DoThen(consume(consume(P, "RightParen", "Expect ')' after parameters."),
                   "LeftBrace", "Expect '{' before function body."),
           Task("block"), Task("function_end"))
function_parameter(P, t) ==
    Let(parse_variable(
            [(IF Cur(P).function.arity = 255
              THEN error_at_current(P, "Can't have more than 255 parameters.")
              ELSE P) EXCEPT !.comps[Len(P.comps)].function.arity = @ + 1],
            "Expect parameter name."), LAMBDA pv :
    Let(define_variable(pv.p, pv.v), LAMBDA P1 :
        IF check(P1, "Comma") THEN Do(advance(P1), Task("function_parameter"))
        ELSE function_body(P1)))
function(P, ftype) ==
    Let(consume(begin_scope(push_compiler(P, ftype)), "LeftParen",
                "Expect '(' after function name."), LAMBDA P1 :
        IF ~check(P1, "RightParen") THEN Do(P1, Task("function_parameter"))
        ELSE function_body(P1))

RECURSIVE emit_upvalues(_, _)
emit_upvalues(P, upvalues) ==
    IF upvalues = <<>> THEN P
    ELSE emit_upvalues(
            emit_byte(emit_byte(P, IF Head(upvalues).is_local THEN 1 ELSE 0),
                      Head(upvalues).index),
            Tail(upvalues))

\* pop_compiler (which emits the implicit return), the Function and Closure
\* objects, the CLOSURE instruction and one {is_local, index} pair per upvalue
function_end(P, t) ==
    Let(emit_return(P), LAMBDA P1 :
    Let(GcAlloc(P1.heap, Cur(P1).function), LAMBDA f :
    Let(GcAlloc(f.heap, [k |-> "Closure", function |-> f.h, upvalues |-> <<>>]),
        LAMBDA c :
    Let(make_constant([P1 EXCEPT !.comps = Front(@), !.heap = c.heap],
                      Obj("Closure", c.h)), LAMBDA mc :
        emit_upvalues(emit_bytes(mc.p, OpClosure, mc.v),
                      Cur(P1).function.upvalues)))))

function_declaration(P) ==
    Let(parse_variable(P, "Expect function name"), LAMBDA pv :
        function(Do(mark_initialized(pv.p),
                    [k |-> "function_declaration_end", global |-> pv.v]),
                 "Function"))
function_declaration_end(P, t) == define_variable(P, t.global)

method(P, t) ==
    Let(consume(P, "Identifier", "Expect method name."), LAMBDA P1 :
    Let(identifier_constant(P1, P1.previous.value), LAMBDA ic :
        function(Do(ic.p, [k |-> "method_end", constant |-> ic.v]),
                 IF P1.previous.value = "init" THEN "Initializer" ELSE "Method")))
method_end(P, t) == emit_bytes(P, OpMethod, t.constant)

\* The superclass clause of class_declaration, after the < has been matched
class_superclass(P, class_name) ==
    Let(variable(consume(P, "Identifier", "Expect superclass name."), FALSE),
        LAMBDA P1 :
    Let(emit_byte(
            named_variable(
                define_variable(
                    add_local(begin_scope(
                                  IF class_name = P1.previous.value
                                  THEN error(P1, "A class can't inherit from itself.")
                                  ELSE P1),
                              "super"),
                    0),
                class_name, FALSE),
            OpInherit), LAMBDA P2 :
        [P2 EXCEPT !.classes[Len(P2.classes)].has_superclass = TRUE]))

class_declaration(P) ==
    Let(consume(P, "Identifier", "Expect class name."), LAMBDA P1 :
    Let(identifier_constant(P1, P1.previous.value), LAMBDA ic :
    Let([define_variable(emit_bytes(declare_variable(ic.p), OpClass, ic.v), ic.v)
            EXCEPT !.classes = Append(@, [has_superclass |-> FALSE])], LAMBDA P3 :
        Do(consume(named_variable(IF check(P3, "Less")
                                  THEN class_superclass(advance(P3), P1.previous.value)
                                  ELSE P3,
                                  P1.previous.value, FALSE),
                   "LeftBrace", "Expect '{' before class body."),
           Task("class_body")))))

\* one turn of the loop over the methods, or what follows the loop
class_body(P, t) ==
    IF ~check(P, "RightBrace") /\ ~check(P, "Eof")
    THEN DoThen(P, Task("method"), t)
    ELSE Let(emit_byte(consume(P, "RightBrace", "Expect '}' after class body."),
                       OpPop), LAMBDA P1 :
             [(IF Last(P1.classes).has_superclass THEN end_scope(P1) ELSE P1)
                 EXCEPT !.classes = Front(@)])

\* synchronize: panic_mode is cleared, then one task per turn of the loop.
\* A turn whose advance leaves the parser as it was is followed by the same
\* turn again.
synchronize_loop(P, t) ==
    IF P.current.kind = "Eof" THEN P
    ELSE IF P.previous.kind = "Semicolon" THEN P
    ELSE IF P.current.kind \in {"Class", "Fun", "Var", "For", "If", "While",
                                "Print", "Return"} THEN P
    ELSE Do(advance(P), t)
synchronize(P) == Do([P EXCEPT !.panic_mode = FALSE], Task("synchronize_loop"))

declaration(P0, t) ==
    Let(Do(P0, Task("declaration_end")), LAMBDA P :
        IF check(P, "Class") THEN class_declaration(advance(P))
        ELSE IF check(P, "Fun") THEN function_declaration(advance(P))
        ELSE IF check(P, "Var") THEN var_declaration(advance(P))
        ELSE Do(P, Task("statement")))
declaration_end(P, t) == IF P.panic_mode THEN synchronize(P) ELSE P

\* Parser::compile: advance, then one task per turn of the loop over the
\* declarations; after the loop, emit_return
parser_compile(P, t) == Do(advance(P), Task("compile_loop"))
compile_loop(P, t) ==
    IF ~check(P, "Eof") THEN DoThen(P, Task("declaration"), t)
    ELSE emit_return(advance(P))

\* The task t, done in the parser state P
do_task(P, t) ==
    CASE t.k = "compile" -> parser_compile(P, t)
      [] t.k = "compile_loop" -> compile_loop(P, t)
      [] t.k = "declaration" -> declaration(P, t)
      [] t.k = "declaration_end" -> declaration_end(P, t)
      [] t.k = "synchronize_loop" -> synchronize_loop(P, t)
      [] t.k = "statement" -> statement(P, t)
      [] t.k = "expression_statement_end" -> expression_statement_end(P, t)
      [] t.k = "print_statement_end" -> print_statement_end(P, t)
      [] t.k = "return_statement_end" -> return_statement_end(P, t)
      [] t.k = "var_declaration_end" -> var_declaration_end(P, t)
      [] t.k = "block" -> block(P, t)
      [] t.k = "block_statement_end" -> block_statement_end(P, t)
      [] t.k = "if_statement_then" -> if_statement_then(P, t)
      [] t.k = "if_statement_else" -> if_statement_else(P, t)
      [] t.k = "if_statement_end" -> if_statement_end(P, t)
      [] t.k = "while_statement_body" -> while_statement_body(P, t)
      [] t.k = "while_statement_end" -> while_statement_end(P, t)
      [] t.k = "for_condition" -> for_condition(P, t)
      [] t.k = "for_condition_end" -> for_condition_end(P, t)
      [] t.k = "for_increment_end" -> for_increment_end(P, t)
      [] t.k = "for_end" -> for_end(P, t)
      [] t.k = "function_parameter" -> function_parameter(P, t)
      [] t.k = "function_end" -> function_end(P, t)
      [] t.k = "function_declaration_end" -> function_declaration_end(P, t)
      [] t.k = "method" -> method(P, t)
      [] t.k = "method_end" -> method_end(P, t)
      [] t.k = "class_body" -> class_body(P, t)
      [] t.k = "parse_precedence" -> parse_precedence(P, t)
      [] t.k = "infix_loop" -> infix_loop(P, t)
      [] t.k = "named_variable_set" -> named_variable_set(P, t)
      [] t.k = "grouping_end" -> grouping_end(P, t)
      [] t.k = "unary_end" -> unary_end(P, t)
      [] t.k = "argument_list" -> argument_list(P)
      [] t.k = "argument_list_loop" -> argument_list_loop(P, t)
      [] t.k = "super_invoke" -> super_invoke(P, t)
      [] t.k = "binary_end" -> binary_end(P, t)
      [] t.k = "call_end" -> call_end(P, t)
      [] t.k = "dot_set" -> dot_set(P, t)
      [] t.k = "dot_invoke" -> dot_invoke(P, t)
      [] t.k = "and_end" -> and_end(P, t)
      [] t.k = "or_end" -> or_end(P, t)

\* One step of the compile: the task on top of P.ks is taken off and done
parse_step(P) == do_task([P EXCEPT !.ks = Front(@)], Last(P.ks))

(***************************************************************************)
(* The VM (vm.rs).  Its state:                                              *)
(*   heap            the objects of vm.gc                                   *)
(*   stack, frames, globals, open_upvalues       the fields of struct VM    *)
(*   input           the sources still to be passed to interpret            *)
(*   result          the state of the current interpret call: "Idle" before *)
(*                   the first, "Compiling" inside compile, "Running"       *)
(*                   inside run, else the value interpret returned,         *)
(*                   or "Panic"                                             *)
(*   parser          the Parser of the compile under way                    *)
(*   out, err        what was written to stdout and to stderr               *)
(*   scan            the Scanner of the scanning specification              *)
(*   process         the process of main.rs: position, arguments, exit status*)
(*   next_gc         the number of objects at which the Gc collects next    *)
(***************************************************************************)
VARIABLES heap, stack, frames, globals, open_upvalues, input, result, parser,
          out, err, scan, process, next_gc

vars == <<heap, stack, frames, globals, open_upvalues, input, result, parser,
          out, err, scan, process, next_gc>>

\* Table (table.rs): a map from string handles to values
TableNew == [x \in {} |-> Nil]
TableInsert(table, key, value) ==
    [x \in DOMAIN table \cup {key} |-> IF x = key THEN value ELSE table[x]]
\* extend that copies nothing
TableExtendNothing(table, other) == table
TableExtend(table, other) ==
    [x \in DOMAIN table \cup DOMAIN other |->
        IF x \in DOMAIN other THEN other[x] ELSE table[x]]

\* The VM as a record M, which the operators below transform; ok is what the
\* bool-returning functions of vm.rs return, panic is set where the Rust code
\* panics.
Machine ==
    [heap |-> heap, stack |-> stack, frames |-> frames, globals |-> globals,
     open_upvalues |-> open_upvalues, out |-> out, err |-> err,
     next_gc |-> next_gc, ok |-> TRUE, panic |-> FALSE, ret |-> "Running"]

current_frame(M) == Last(M.frames)
current_closure(M) == M.heap[current_frame(M).closure]
current_chunk(M) == M.heap[current_closure(M).function]
\* the byte at ip + i
CodeAt(M, i) == current_chunk(M).code[current_frame(M).ip + i + 1]
Skip(M, n) == [M EXCEPT !.frames[Len(M.frames)].ip = @ + n]
read_constant(M, i) == current_chunk(M).constants[CodeAt(M, i) + 1]
read_string(M, i) == read_constant(M, i).v

\* The value stack (stack: Vec<Value>) is kept as the sequence of its runs of
\* equal values: run r is [v, to], the value v in the slots from the end of run
\* r - 1 up to, not including, slot to.  Neighbouring runs differ in v, so two
\* stacks are equal exactly when they hold the same values.  Slots count from 0.
StackLen(s) == IF s = <<>> THEN 0 ELSE Last(s).to
\* the run that holds slot i
StackRun(s, i) == CHOOSE r \in 1..Len(s) : s[r].to > i /\ (r = 1 \/ s[r - 1].to <= i)
\* stack[i]
StackAt(s, i) == s[StackRun(s, i)].v
\* stack.push(v)
StackPush(s, v) ==
    IF s # <<>> /\ Last(s).v = v THEN [s EXCEPT ![Len(s)].to = @ + 1]
    ELSE Append(s, [v |-> v, to |-> StackLen(s) + 1])
\* stack.truncate(n)
StackTruncate(s, n) ==
    IF n >= StackLen(s) THEN s
    ELSE IF n = 0 THEN <<>>
    ELSE [r \in 1..StackRun(s, n - 1) |->
            IF s[r].to > n THEN [s[r] EXCEPT !.to = n] ELSE s[r]]
\* stack[i] = v
StackSet(s, i, v) ==
    LET head == StackPush(StackTruncate(s, i), v)
        rest == SelectSeq(s, LAMBDA run : run.to > i + 1)
    IN IF rest # <<>> /\ Head(rest).v = v
       THEN [head EXCEPT ![Len(head)].to = Head(rest).to] \o Tail(rest)
       ELSE head \o rest

push(M, value) == [M EXCEPT !.stack = StackPush(@, value)]
\* pop and peek are applied to a stack that is not empty
pop(M) == [M EXCEPT !.stack = StackTruncate(@, StackLen(@) - 1)]
peek(M, distance) == StackAt(M.stack, StackLen(M.stack) - distance - 1)
\* stack[i] = value
SetSlot(M, i, value) == [M EXCEPT !.stack = StackSet(@, i, value)]

(***************************************************************************)
(* Garbage collection.  mark_roots and mark_and_sweep are those of vm.rs    *)
(* and Trace is the trace functions of value.rs; the marking, the sweep and *)
(* the test should_gc belong to module gc.  A reclaimed object leaves the   *)
(* slot Free, and its handle is not given out again.                        *)
(***************************************************************************)
Free == [k |-> "Free"]
init_string == GcIntern(<<>>, "init").h

\* Value::trace: the object a value holds
ValueRefs(v) ==
    IF v.t \in {"BoundMethod", "Class", "Closure", "Instance", "String"}
    THEN {v.v} ELSE {}
\* Gc::mark_table: the keys and the values of a table
TableRefs(table) ==
    DOMAIN table \cup UNION {ValueRefs(table[x]) : x \in DOMAIN table}
\* GcTrace::trace of each type of object
Trace(object) ==
    CASE object.k = "Function" ->
            {object.name}
            \cup UNION {ValueRefs(object.constants[i]) :
                           i \in 1..Len(object.constants)}
      [] object.k = "Upvalue" ->
            IF object.closed.some THEN ValueRefs(object.closed.val) ELSE {}
      [] object.k = "Closure" ->
            {object.function}
            \cup {object.upvalues[i] : i \in 1..Len(object.upvalues)}
      [] object.k = "Class" -> {object.name} \cup TableRefs(object.methods)
      [] object.k = "Instance" -> {object.class} \cup TableRefs(object.fields)
      [] object.k = "BoundMethod" ->
            {object.method} \cup ValueRefs(object.receiver)
      [] OTHER -> {}

mark_roots(M) ==
    UNION {ValueRefs(M.stack[r].v) : r \in 1..Len(M.stack)}
    \cup {M.frames[i].closure : i \in 1..Len(M.frames)}
    \cup {M.open_upvalues[i] : i \in 1..Len(M.open_upvalues)}
    \cup TableRefs(M.globals)
    \cup {init_string}

\* Gc::trace_references: the objects marked from the grey ones
RECURSIVE trace_references(_, _, _)
trace_references(objects, grey, marked) ==
    IF grey = {} THEN marked
    ELSE LET found == UNION {Trace(objects[h]) : h \in grey} \ marked
         IN trace_references(objects, found, marked \cup found)

\* The objects that are allocated
Allocated(objects) == {h \in 1..Len(objects) : objects[h].k # "Free"}
\* Gc::should_gc: the objects allocated have reached next_gc
should_gc(M) ==
    Len(M.heap) >= M.next_gc /\ Cardinality(Allocated(M.heap)) >= M.next_gc
\* Gc::collect_garbage: what is not marked is reclaimed, and next_gc becomes
\* twice what is left
collect_garbage(M, roots) ==
    LET marked == trace_references(M.heap, roots, roots)
        swept == [h \in 1..Len(M.heap) |-> IF h \in marked THEN M.heap[h] ELSE Free]
    IN [M EXCEPT !.heap = swept,
                 !.next_gc = 2 * Cardinality(Allocated(swept))]

\* mark_and_sweep that marks every object, not the roots alone
mark_and_sweep_marking_all(M) ==
    IF should_gc(M) THEN collect_garbage(M, mark_roots(M) \cup Allocated(M.heap)) ELSE M

mark_and_sweep(M) == IF should_gc(M) THEN collect_garbage(M, mark_roots(M)) ELSE M

\* VM::alloc, VM::intern
alloc(M, object) ==
    LET M1 == mark_and_sweep(M)
        a == GcAlloc(M1.heap, object)
    IN [m |-> [M1 EXCEPT !.heap = a.heap], h |-> a.h]
intern(M, s) ==
    LET M1 == mark_and_sweep(M)
        a == GcIntern(M1.heap, s)
    IN [m |-> [M1 EXCEPT !.heap = a.heap], h |-> a.h]

reset_stack(M) ==
    [M EXCEPT !.stack = <<>>, !.frames = <<>>, !.open_upvalues = <<>>]

\* runtime_error: the message and one line per frame, innermost first
Backtrace(M) ==
    [i \in 1..Len(M.frames) |->
        LET frame == M.frames[Len(M.frames) + 1 - i]
            fn == M.heap[M.heap[frame.closure].function]
        IN [line |-> fn.lines[frame.ip],
            name |-> IF M.heap[fn.name].s = "" THEN "script" ELSE M.heap[fn.name].s]]

\* runtime_error without the call of reset_stack
runtime_error_keeps_stack(M, message) ==
    [M EXCEPT !.err = Append(@, [msg |-> message, trace |-> Backtrace(M)]),
              !.ok = FALSE]

runtime_error(M, message) ==
    reset_stack([M EXCEPT !.err = Append(@, [msg |-> message, trace |-> Backtrace(M)]),
                          !.ok = FALSE])

ArityMessage(expected, got) ==
    "Expected " \o Decimal(expected) \o " arguments but got " \o Decimal(got) \o "."

\* call without the check of the number of frames
vm_call_unbounded(M, closure_ref, arg_count) ==
    LET fn == M.heap[M.heap[closure_ref].function] IN
    IF arg_count # fn.arity
    THEN runtime_error(M, ArityMessage(fn.arity, arg_count))
    ELSE [M EXCEPT !.frames = Append(@, [closure |-> closure_ref, ip |-> 0,
                                         slot |-> StackLen(M.stack) - arg_count - 1])]

\* call with the frame's slot one above the callee
vm_call_slot_above(M, closure_ref, arg_count) ==
    LET fn == M.heap[M.heap[closure_ref].function] IN
    IF arg_count # fn.arity
    THEN runtime_error(M, ArityMessage(fn.arity, arg_count))
    ELSE IF Len(M.frames) = FRAME_MAX
    THEN runtime_error(M, "Stack overflow.")
    ELSE [M EXCEPT !.frames = Append(@, [closure |-> closure_ref, ip |-> 0,
                                         slot |-> StackLen(M.stack) - arg_count])]

vm_call(M, closure_ref, arg_count) ==
    LET fn == M.heap[M.heap[closure_ref].function] IN
    IF arg_count # fn.arity
    THEN runtime_error(M, ArityMessage(fn.arity, arg_count))
    ELSE IF Len(M.frames) = FRAME_MAX
    THEN runtime_error(M, "Stack overflow.")
    ELSE [M EXCEPT !.frames = Append(@, [closure |-> closure_ref, ip |-> 0,
                                         slot |-> StackLen(M.stack) - arg_count - 1])]

\* call_value that calls the method of a bound method on the callee slot as
\* it stands
call_value_keeps_callee(M, callee, arg_count) ==
    CASE callee.t = "BoundMethod" ->
            vm_call(M, M.heap[callee.v].method, arg_count)
      [] callee.t = "Class" ->
            LET a == alloc(M, [k |-> "Instance", class |-> callee.v,
                               fields |-> TableNew])
                slot == StackLen(M.stack) - arg_count - 1
                M1 == SetSlot(a.m, slot, Obj("Instance", a.h))
                methods == M.heap[callee.v].methods
            IN IF init_string \in DOMAIN methods /\ methods[init_string].t = "Closure"
               THEN vm_call(M1, methods[init_string].v, arg_count)
               ELSE IF arg_count # 0
               THEN runtime_error(M1, ArityMessage(0, arg_count))
               ELSE M1
      [] callee.t = "Closure" -> vm_call(M, callee.v, arg_count)
      [] callee.t = "NativeFunction" ->
            LET offset == StackLen(M.stack) - arg_count
            IN push([M EXCEPT !.stack = StackTruncate(@, offset - 1)], Number(0))
      [] OTHER -> runtime_error(M, "Can only call functions and classes.")
call_value(M, callee, arg_count) ==
    CASE callee.t = "BoundMethod" ->
            LET bound == M.heap[callee.v]
                slot == StackLen(M.stack) - arg_count - 1
            IN vm_call(SetSlot(M, slot, bound.receiver), bound.method, arg_count)
      [] callee.t = "Class" ->
            LET a == alloc(M, [k |-> "Instance", class |-> callee.v,
                               fields |-> TableNew])
                slot == StackLen(M.stack) - arg_count - 1
                M1 == SetSlot(a.m, slot, Obj("Instance", a.h))
                methods == M.heap[callee.v].methods
            IN IF init_string \in DOMAIN methods /\ methods[init_string].t = "Closure"
               THEN vm_call(M1, methods[init_string].v, arg_count)
               ELSE IF arg_count # 0
               THEN runtime_error(M1, ArityMessage(0, arg_count))
               ELSE M1
      [] callee.t = "Closure" -> vm_call(M, callee.v, arg_count)
      [] callee.t = "NativeFunction" ->
            \* clock_native: milliseconds since the epoch; the model's clock
            \* reads 0
            LET offset == StackLen(M.stack) - arg_count
            IN push([M EXCEPT !.stack = StackTruncate(@, offset - 1)], Number(0))
      [] OTHER -> runtime_error(M, "Can only call functions and classes.")

\* invoke_from_class that looks the method up in the class of the receiver
invoke_from_class_of_receiver(M, class, name, arg_count) ==
    LET methods == M.heap[M.heap[peek(M, arg_count).v].class].methods IN
    IF name \in DOMAIN methods /\ methods[name].t = "Closure"
    THEN vm_call(M, methods[name].v, arg_count)
    ELSE runtime_error(M, "Undefined property '" \o M.heap[name].s \o "'.")
invoke_from_class(M, class, name, arg_count) ==
    LET methods == M.heap[class].methods IN
    IF name \in DOMAIN methods /\ methods[name].t = "Closure"
    THEN vm_call(M, methods[name].v, arg_count)
    ELSE runtime_error(M, "Undefined property '" \o M.heap[name].s \o "'.")

\* invoke that looks for the method before the field
invoke_method_first(M, name, arg_count) ==
    IF peek(M, arg_count).t = "Instance"
    THEN LET instance == M.heap[peek(M, arg_count).v] IN
         IF name \in DOMAIN M.heap[instance.class].methods
         THEN invoke_from_class(M, instance.class, name, arg_count)
         ELSE IF name \in DOMAIN instance.fields
         THEN LET value == instance.fields[name]
                  slot == StackLen(M.stack) - arg_count - 1
              IN call_value(SetSlot(M, slot, value), value, arg_count)
         ELSE invoke_from_class(M, instance.class, name, arg_count)
    ELSE runtime_error(M, "Only instances have methods.")
invoke(M, name, arg_count) ==
    IF peek(M, arg_count).t = "Instance"
    THEN LET instance == M.heap[peek(M, arg_count).v] IN
         IF name \in DOMAIN instance.fields
         THEN LET value == instance.fields[name]
                  slot == StackLen(M.stack) - arg_count - 1
              IN call_value(SetSlot(M, slot, value), value, arg_count)
         ELSE invoke_from_class(M, instance.class, name, arg_count)
    ELSE runtime_error(M, "Only instances have methods.")

bind_method(M, class, name) ==
    LET methods == M.heap[class].methods IN
    IF name \in DOMAIN methods /\ methods[name].t = "Closure"
    THEN LET a == alloc(M, [k |-> "BoundMethod", receiver |-> peek(M, 0),
                            method |-> methods[name].v])
         IN push(pop(a.m), Obj("BoundMethod", a.h))
    ELSE runtime_error(M, "Undefined property '" \o M.heap[name].s \o "'.")

\* capture_upvalue that never looks for an upvalue of the location in the list
capture_upvalue_fresh(M, location) ==
    LET a == alloc(M, [k |-> "Upvalue", location |-> location, closed |-> None])
    IN [m |-> [a.m EXCEPT !.open_upvalues = Append(@, a.h)], h |-> a.h]
\* capture_upvalue that keeps the list in descending order of location
capture_upvalue_sorted(M, location) ==
    LET found == {i \in 1..Len(M.open_upvalues) :
                     M.heap[M.open_upvalues[i]].location = location}
        above == SelectSeq(M.open_upvalues,
                           LAMBDA u : M.heap[u].location > location)
        below == SelectSeq(M.open_upvalues,
                           LAMBDA u : M.heap[u].location < location)
    IN IF found # {}
       THEN [m |-> M,
             h |-> M.open_upvalues[CHOOSE i \in found : \A j \in found : i <= j]]
       ELSE LET a == alloc(M, [k |-> "Upvalue", location |-> location,
                               closed |-> None])
            IN [m |-> [a.m EXCEPT !.open_upvalues = above \o <<a.h>> \o below],
                h |-> a.h]
\* capture_upvalue: [m, h]
capture_upvalue(M, location) ==
    LET found == {i \in 1..Len(M.open_upvalues) :
                     M.heap[M.open_upvalues[i]].location = location}
    IN IF found # {}
       THEN [m |-> M,
             h |-> M.open_upvalues[CHOOSE i \in found : \A j \in found : i <= j]]
       ELSE LET a == alloc(M, [k |-> "Upvalue", location |-> location,
                               closed |-> None])
            IN [m |-> [a.m EXCEPT !.open_upvalues = Append(@, a.h)], h |-> a.h]

\* close_upvalues: every open upvalue at or above last takes the value of its
\* stack slot and leaves the list
RECURSIVE close_upvalues_from(_, _, _)
close_upvalues_from(M, last, i) ==
    IF i > Len(M.open_upvalues) THEN M
    ELSE LET upvalue == M.open_upvalues[i]
             location == M.heap[upvalue].location
         IN IF location >= last
            THEN IF location >= StackLen(M.stack) THEN [M EXCEPT !.panic = TRUE]
                 ELSE close_upvalues_from(
                        [M EXCEPT !.open_upvalues =
                                      SubSeq(@, 1, i - 1) \o SubSeq(@, i + 1, Len(@)),
                                  !.heap[upvalue].closed =
                                      Some(StackAt(M.stack, location))],
                        last, i)
            ELSE close_upvalues_from(M, last, i + 1)
\* close_upvalues that closes nothing
close_upvalues_none(M, last) == M
\* close_upvalues that leaves the upvalue of slot last open
close_upvalues_above(M, last) == close_upvalues_from(M, last + 1, 1)
\* close_upvalues that leaves the remaining upvalues in the opposite order
close_upvalues_reversed(M, last) ==
    LET C == close_upvalues_from(M, last, 1)
        n == Len(C.open_upvalues)
    IN [C EXCEPT !.open_upvalues = [i \in 1..n |-> C.open_upvalues[n + 1 - i]]]
close_upvalues(M, last) == close_upvalues_from(M, last, 1)

define_method(M, name) ==
    IF peek(M, 1).t = "Class"
    THEN pop([M EXCEPT !.heap[peek(M, 1).v].methods = TableInsert(@, name, peek(M, 0))])
    ELSE M

\* Value's derived PartialEq; Native's eq compares the addresses of its two
\* operands, which are never the same place
ValuesEqual(a, b) == a.t = b.t /\ a.v = b.v /\ a.t # "NativeFunction"

\* GcTraceFormatter: what print writes
FormatNumber(n) == IF n < 0 THEN "-" \o Decimal(-n) ELSE Decimal(n)
FormatFunction(h, f) ==
    IF h[h[f].name].s = "" THEN "<script>" ELSE "<fn " \o h[h[f].name].s \o ">"
Format(h, value) ==
    CASE value.t = "Nil" -> "nil"
      [] value.t = "Bool" -> IF value.v = 1 THEN "true" ELSE "false"
      [] value.t = "Number" -> FormatNumber(value.v)
      [] value.t = "String" -> h[value.v].s
      [] value.t = "NativeFunction" -> "<native fn>"
      [] value.t = "Closure" -> FormatFunction(h, h[value.v].function)
      [] value.t = "Class" -> h[h[value.v].name].s
      [] value.t = "Instance" -> h[h[h[value.v].class].name].s \o " instance"
      [] value.t = "BoundMethod" -> FormatFunction(h, h[h[value.v].method].function)

(***************************************************************************)
(* VM::run, one operator per arm of the match.  Each takes the machine M    *)
(* whose current frame's ip is at the instruction and returns the machine   *)
(* after the arm; ret = "Ok" when run returns InterpretResult::Ok.          *)
(***************************************************************************)
op_constant(M) == push(Skip(M, 2), read_constant(M, 1))
op_nil(M) == push(Skip(M, 1), Nil)
op_true(M) == push(Skip(M, 1), Bool(TRUE))
op_false(M) == push(Skip(M, 1), Bool(FALSE))
op_pop(M) == pop(Skip(M, 1))

op_get_local(M) ==
    push(Skip(M, 2), StackAt(M.stack, current_frame(M).slot + CodeAt(M, 1)))
op_set_local(M) ==
    SetSlot(Skip(M, 2), current_frame(M).slot + CodeAt(M, 1), peek(M, 0))

op_get_global(M) ==
    LET name == read_string(M, 1) IN
    IF name \in DOMAIN M.globals
    THEN push(Skip(M, 2), M.globals[name])
    ELSE runtime_error(Skip(M, 2), "Undefined variable '" \o M.heap[name].s \o "'.")
op_define_global(M) ==
    LET name == read_string(M, 1) IN
    [pop(Skip(M, 2)) EXCEPT !.globals = TableInsert(@, name, peek(M, 0))]
op_set_global(M) ==
    LET name == read_string(M, 1) IN
    IF name \in DOMAIN M.globals
    THEN [Skip(M, 2) EXCEPT !.globals = TableInsert(@, name, peek(M, 0))]
    ELSE runtime_error(Skip(M, 2), "Undefined variable '" \o M.heap[name].s \o "'.")

op_get_upvalue(M) ==
    LET upvalue == M.heap[current_closure(M).upvalues[CodeAt(M, 1) + 1]] IN
    IF upvalue.closed.some THEN push(Skip(M, 2), upvalue.closed.val)
    ELSE IF upvalue.location >= StackLen(M.stack) THEN [M EXCEPT !.panic = TRUE]
    ELSE push(Skip(M, 2), StackAt(M.stack, upvalue.location))
op_set_upvalue(M) ==
    LET h == current_closure(M).upvalues[CodeAt(M, 1) + 1]
        upvalue == M.heap[h]
    IN IF upvalue.closed.some
       THEN [Skip(M, 2) EXCEPT !.heap[h].closed = Some(peek(M, 0))]
       ELSE IF upvalue.location >= StackLen(M.stack) THEN [M EXCEPT !.panic = TRUE]
       ELSE SetSlot(Skip(M, 2), upvalue.location, peek(M, 0))

\* OpGetProperty that looks for the method before the field
op_get_property_method_first(M) ==
    IF peek(M, 0).t = "Instance"
    THEN LET name == read_string(M, 1)
             instance == M.heap[peek(M, 0).v]
         IN IF name \in DOMAIN M.heap[instance.class].methods
            THEN bind_method(Skip(M, 2), instance.class, name)
            ELSE IF name \in DOMAIN instance.fields
            THEN push(pop(Skip(M, 2)), instance.fields[name])
            ELSE bind_method(Skip(M, 2), instance.class, name)
    ELSE runtime_error(Skip(M, 1), "Only instances have properties.")
op_get_property(M) ==
    IF peek(M, 0).t = "Instance"
    THEN LET name == read_string(M, 1)
             instance == M.heap[peek(M, 0).v]
         IN IF name \in DOMAIN instance.fields
            THEN push(pop(Skip(M, 2)), instance.fields[name])
            ELSE bind_method(Skip(M, 2), instance.class, name)
    ELSE runtime_error(Skip(M, 1), "Only instances have properties.")
op_set_property(M) ==
    IF peek(M, 1).t = "Instance"
    THEN LET name == read_string(M, 1)
             value == peek(M, 0)
             M1 == [Skip(M, 2) EXCEPT !.heap[peek(M, 1).v].fields =
                                          TableInsert(@, name, value)]
         IN push(pop(pop(M1)), value)
    ELSE runtime_error(Skip(M, 1), "Only instances have fields.")
op_get_super(M) ==
    IF peek(M, 0).t = "Class"
    THEN bind_method(pop(Skip(M, 2)), peek(M, 0).v, read_string(M, 1))
    ELSE [M EXCEPT !.panic = TRUE]

op_equal(M) ==
    push(pop(pop(Skip(M, 1))), Bool(ValuesEqual(peek(M, 1), peek(M, 0))))

\* binary_op! for the operators other than +; Apply(a, b) is the Value
NumbersOp(M, value) ==
    IF peek(M, 1).t = "Number" /\ peek(M, 0).t = "Number"
    THEN push(pop(pop(Skip(M, 1))), value)
    ELSE runtime_error(pop(pop(Skip(M, 1))), "Operands must be numbers.")
op_greater(M) == NumbersOp(M, Bool(peek(M, 1).v > peek(M, 0).v))
op_less(M) == NumbersOp(M, Bool(peek(M, 1).v < peek(M, 0).v))
op_subtract(M) == NumbersOp(M, Number(peek(M, 1).v - peek(M, 0).v))
op_multiply(M) == NumbersOp(M, Number(peek(M, 1).v * peek(M, 0).v))
\* Numbers of the model are the integers: a quotient is a value of the model
\* when the division is exact
Divisible(M) ==
    (peek(M, 1).t = "Number" /\ peek(M, 0).t = "Number")
        => (peek(M, 0).v # 0 /\ peek(M, 1).v % peek(M, 0).v = 0)
op_divide(M) ==
    NumbersOp(M, Number(IF peek(M, 0).v > 0
                        THEN peek(M, 1).v \div peek(M, 0).v
                        ELSE (-peek(M, 1).v) \div (-peek(M, 0).v)))
\* + that allocates the concatenation as a new string, without interning it
op_add_allocating(M) ==
    LET a == peek(M, 1)
        b == peek(M, 0)
        M1 == pop(pop(Skip(M, 1)))
    IN IF a.t = "Number" /\ b.t = "Number" THEN push(M1, Number(a.v + b.v))
       ELSE IF a.t = "String" /\ b.t = "String"
       THEN LET r == alloc(M1, [k |-> "String", s |-> M.heap[a.v].s \o M.heap[b.v].s])
            IN push(r.m, Obj("String", r.h))
       ELSE runtime_error(M1, "Operands must be two numbers or two strings.")

op_add(M) ==
    LET a == peek(M, 1)
        b == peek(M, 0)
        M1 == pop(pop(Skip(M, 1)))
    IN IF a.t = "Number" /\ b.t = "Number" THEN push(M1, Number(a.v + b.v))
       ELSE IF a.t = "String" /\ b.t = "String"
       THEN LET r == intern(M1, M.heap[a.v].s \o M.heap[b.v].s)
            IN push(r.m, Obj("String", r.h))
       ELSE runtime_error(M1, "Operands must be two numbers or two strings.")

op_not(M) == push(pop(Skip(M, 1)), Bool(is_falsey(peek(M, 0))))
op_negate(M) ==
    IF peek(M, 0).t = "Number"
    THEN push(pop(Skip(M, 1)), Number(-peek(M, 0).v))
    ELSE runtime_error(pop(Skip(M, 1)), "Operand must be a number.")
op_print(M) ==
    [pop(Skip(M, 1)) EXCEPT !.out = Append(@, Format(M.heap, peek(M, 0)))]

\* read_short: the two operand bytes, big-endian
Short(M) == CodeAt(M, 1) * 256 + CodeAt(M, 2)
op_jump(M) == Skip(M, 3 + Short(M))
op_jump_if_false(M) ==
    IF is_falsey(peek(M, 0)) THEN Skip(M, 3 + Short(M)) ELSE Skip(M, 3)
op_loop(M) == Skip(M, 3 - Short(M))

op_call(M) ==
    LET arg_count == CodeAt(M, 1) IN
    call_value(Skip(M, 2), peek(M, arg_count), arg_count)
op_invoke(M) == invoke(Skip(M, 3), read_string(M, 1), CodeAt(M, 2))
op_super_invoke(M) ==
    IF peek(M, 0).t = "Class"
    THEN invoke_from_class(pop(Skip(M, 3)), peek(M, 0).v, read_string(M, 1),
                           CodeAt(M, 2))
    ELSE [M EXCEPT !.panic = TRUE]

\* The loop of the OpClosure arm that reads no operand pair
closure_upvalues_none(M, length, i, upvalues) == [m |-> M, upvalues |-> upvalues]
\* The loop of the OpClosure arm: one (is_local, index) pair per upvalue of
\* the function, read from the code after the constant operand
RECURSIVE closure_upvalues(_, _, _, _)
closure_upvalues(M, length, i, upvalues) ==
    IF i > length THEN [m |-> M, upvalues |-> upvalues]
    ELSE LET is_local == CodeAt(M, 0)
             index == CodeAt(M, 1)
             M1 == Skip(M, 2)
         IN IF is_local = 1
            THEN LET c == capture_upvalue(M1, current_frame(M).slot + index)
                 IN closure_upvalues(c.m, length, i + 1, Append(upvalues, c.h))
            ELSE closure_upvalues(M1, length, i + 1,
                     Append(upvalues, current_closure(M).upvalues[index + 1]))
op_closure(M) ==
    LET constant == read_constant(M, 1) IN
    IF constant.t = "Closure"
    THEN LET fn == M.heap[constant.v].function
             u == closure_upvalues(Skip(M, 2), Len(M.heap[fn].upvalues), 1, <<>>)
             a == alloc(u.m, [k |-> "Closure", function |-> fn,
                              upvalues |-> u.upvalues])
         IN push(a.m, Obj("Closure", a.h))
    ELSE Skip(M, 2)
op_close_upvalue(M) == pop(close_upvalues(Skip(M, 1), StackLen(M.stack) - 1))

\* The OpReturn arm without the pop of the script's closure
op_return_keeps_script(M) ==
    LET value == peek(M, 0)
        slot == current_frame(M).slot
        M1 == close_upvalues(pop(Skip(M, 1)), slot)
        M2 == [M1 EXCEPT !.frames = Front(@)]
    IN IF M1.panic THEN M1
       ELSE IF M2.frames = <<>> THEN [M2 EXCEPT !.ret = "Ok"]
       ELSE push([M2 EXCEPT !.stack = StackTruncate(@, slot)], value)

op_return(M) ==
    LET value == peek(M, 0)
        slot == current_frame(M).slot
        M1 == close_upvalues(pop(Skip(M, 1)), slot)
        M2 == [M1 EXCEPT !.frames = Front(@)]
    IN IF M1.panic THEN M1
       ELSE IF M2.frames = <<>> THEN [pop(M2) EXCEPT !.ret = "Ok"]
       ELSE push([M2 EXCEPT !.stack = StackTruncate(@, slot)], value)

op_class(M) ==
    LET a == alloc(Skip(M, 2), [k |-> "Class", name |-> read_string(M, 1),
                                methods |-> TableNew])
    IN push(a.m, Obj("Class", a.h))
op_inherit(M) ==
    IF peek(M, 1).t = "Class"
    THEN IF peek(M, 0).t = "Class"
         THEN pop([Skip(M, 1) EXCEPT !.heap[peek(M, 0).v].methods =
                       TableExtend(@, M.heap[peek(M, 1).v].methods)])
         ELSE Skip(M, 1)
    ELSE runtime_error(Skip(M, 1), "Superclass must be a class.")
op_method(M) == define_method(Skip(M, 2), read_string(M, 1))

(***************************************************************************)
(* The sources the interpreter is given: a session is the sequence of       *)
(* sources passed to interpret by one VM (the lines of a REPL, main.rs      *)
(* repl; or the one source of run_file).  A source is its sequence of       *)
(* lexemes.                                                                 *)
(***************************************************************************)
\* Arithmetic, comparison, globals and print, one REPL line each
SessionArithmetic ==
    <<<<"var", "a", "=", "1", ";", "var", "b", "=", "2", ";", "print", "a", "+",
       "b", "*", "3", "-", "4", "/", "2", ";", "print", "-", "a", ";", "print",
       "!", "true", ";">>,
      <<"print", "a", "==", "b", ";", "print", "a", "<", "b", ";", "print", "a",
       ">", "b", ";", "print", "\"", "x", "+", "\"", "y", ";", "a", "=", "5",
       ";", "print", "a", ";">>,
      <<"print", "nil", ";", "print", "false", ";", "print", "clock", "==",
       "clock", ";", "print", "clock", ";">>>>

\* Locals, while, for, if, and, or
SessionControl ==
    <<<<"{", "var", "i", "=", "0", ";", "while", "(", "i", "<", "2", ")", "{",
       "i", "=", "i", "+", "1", ";", "}", "if", "(", "i", "==", "2", ")",
       "print", "i", ";", "else", "print", "0", ";", "}">>,
      <<"for", "(", "var", "j", "=", "0", ";", "j", "<", "2", ";", "j", "=",
       "j", "+", "1", ")", "print", "j", ";", "print", "nil", "and", "1", ";",
       "print", "1", "or", "2", ";">>>>

\* Closures: an upvalue closed by return, one closed by the end of a block
SessionClosures ==
    <<<<"fun", "make", "(", ")", "{", "var", "c", "=", "0", ";", "fun", "inc",
       "(", ")", "{", "c", "=", "c", "+", "1", ";", "return", "c", ";", "}",
       "return", "inc", ";", "}", "\n", "var", "f", "=", "make", "(", ")", ";",
       "print", "f", "(", ")", ";", "print", "f", "(", ")", ";", "print", "f",
       ";">>,
      <<"var", "h", ";", "{", "var", "x", "=", "1", ";", "fun", "g", "(", ")",
       "{", "x", "=", "x", "+", "1", ";", "return", "x", ";", "}", "h", "=",
       "g", ";", "print", "g", "(", ")", ";", "}", "print", "h", "(", ")", ";">>>>

\* Classes, initializers, inheritance, super, bound methods, fields
SessionClasses ==
    <<<<"class", "A", "{", "init", "(", "x", ")", "{", "this", ".", "x", "=",
       "x", ";", "}", "get", "(", ")", "{", "return", "this", ".", "x", ";",
       "}", "}", "\n", "class", "B", "<", "A", "{", "get", "(", ")", "{",
       "return", "super", ".", "get", "(", ")", "+", "1", ";", "}", "alt", "(",
       ")", "{", "var", "m", "=", "super", ".", "get", ";", "return", "m", "(",
       ")", ";", "}", "}">>,
      <<"var", "b", "=", "B", "(", "3", ")", ";", "print", "b", ".", "get", "(",
       ")", ";", "print", "b", ".", "alt", "(", ")", ";", "var", "m", "=", "b",
       ".", "get", ";", "print", "m", "(", ")", ";", "print", "b", ".", "x",
       ";", "b", ".", "x", "=", "4", ";", "print", "b", ";", "print", "B", ";",
       "print", "m", ";">>,
      <<"class", "C", "{", "init", "(", ")", "{", "this", ".", "f", "=",
       "clock", ";", "return", ";", "}", "}", "var", "c", "=", "C", "(", ")",
       ";", "print", "c", ".", "f", "(", ")", ";", "print", "c", ".", "init",
       "(", ")", ";">>,
      <<"class", "D", "{", "}", "print", "D", "(", ")", ";", "fun", "id", "(",
       "v", ")", "{", "return", "v", ";", "}", "var", "d", "=", "D", "(", ")",
       ";", "d", ".", "g", "=", "id", ";", "print", "d", ".", "g", "(", "7",
       ")", ";">>>>

\* Runtime errors, each on a REPL line of its own
SessionRuntimeErrors ==
    <<<<"print", "x", ";">>,
      <<"x", "=", "1", ";">>,
      <<"var", "a", "=", "1", ";", "a", "(", ")", ";">>,
      <<"-", "\"", "s", ";">>,
      <<"1", "+", "\"", "s", ";">>,
      <<"1", "<", "nil", ";">>,
      <<"a", ".", "b", ";">>,
      <<"a", ".", "b", "=", "1", ";">>,
      <<"a", ".", "b", "(", ")", ";">>,
      <<"class", "E", "{", "}", "E", "(", "1", ")", ";">>,
      <<"E", "(", ")", ".", "m", ";">>,
      <<"E", "(", ")", ".", "m", "(", ")", ";">>,
      <<"fun", "f", "(", "p", ")", "{", "}", "f", "(", ")", ";">>,
      <<"var", "n", "=", "nil", ";", "class", "F", "<", "n", "{", "}">>,
      <<"class", "G", "{", "init", "(", "x", ")", "{", "}", "}", "G", "(", ")",
       ";">>,
      <<"class", "H", "<", "E", "{", "m", "(", ")", "{", "super", ".", "m", "(",
       ")", ";", "}", "}", "H", "(", ")", ".", "m", "(", ")", ";">>,
      <<"class", "I", "<", "E", "{", "m", "(", ")", "{", "super", ".", "m", ";",
       "}", "}", "I", "(", ")", ".", "m", "(", ")", ";">>,
      <<"{", "var", "k", "=", "1", ";", "fun", "u", "(", ")", "{", "return",
       "k", ";", "}", "f", "(", ")", ";", "}">>,
      <<"print", "a", ";">>>>

\* Compile errors; the last line is a compile that does not return
SessionCompileErrors ==
    <<<<"var", "g", "=", "1", ";">>,
      <<"var", "=", "1", ";">>,
      <<"print", "1">>,
      <<"{", "var", "a", "=", "a", ";", "}">>,
      <<"return", "1", ";">>,
      <<"print", "?", ";">>,
      <<"class", "A", "{", "init", "(", ")", "{", "return", "1", ";", "}", "}">>,
      <<"print", "this", ";">>,
      <<"a", "+", "b", "=", "1", ";">>,
      <<"{", "var", "a", ";", "var", "a", ";", "}">>,
      <<"print", "g", ";">>,
      <<"print">>>>

\* A variable declaration cut off after the = sign
SessionVarNoInitializer ==
    <<<<"var", "x", "=">>>>

\* Unbounded recursion
SessionOverflow ==
    <<<<"fun", "f", "(", ")", "{", "f", "(", ")", ";", "}", "f", "(", ")", ";">>,
      <<"print", "1", ";">>>>

\* Recursion to FRAME_MAX frames, then calls that need no frame
SessionDeep ==
    <<<<"class", "C", "{", "}", "fun", "f", "(", "n", ")", "{", "if", "(", "n",
       "<", "63", ")", "f", "(", "n", "+", "1", ")", ";", "else", "{", "print",
       "clock", "(", ")", ";", "print", "C", "(", ")", ";", "}", "}", "f", "(",
       "1", ")", ";">>>>

\* Recursion to FRAME_MAX frames, then a call with the wrong number of arguments
SessionDeepArity ==
    <<<<"fun", "f", "(", "n", ")", "{", "if", "(", "n", "<", "63", ")", "f",
       "(", "n", "+", "1", ")", ";", "else", "f", "(", ")", ";", "}", "f", "(",
       "1", ")", ";">>>>

\* Recursion to FRAME_MAX frames, then a class call whose initializer needs a frame
SessionDeepInit ==
    <<<<"class", "C", "{", "init", "(", ")", "{", "}", "}", "fun", "f", "(",
       "n", ")", "{", "if", "(", "n", "<", "63", ")", "f", "(", "n", "+", "1",
       ")", ";", "else", "C", "(", ")", ";", "}", "f", "(", "1", ")", ";">>>>

\* Recursion to FRAME_MAX frames, then a call of a number
SessionDeepNotCallable ==
    <<<<"fun", "f", "(", "n", ")", "{", "if", "(", "n", "<", "63", ")", "f",
       "(", "n", "+", "1", ")", ";", "else", "n", "(", ")", ";", "}", "f", "(",
       "1", ")", ";">>>>

\* A bound method keeps its receiver; a field hides the method of its name
SessionBound ==
    <<<<"class", "A", "{", "init", "(", "n", ")", "{", "this", ".", "n", "=",
       "n", ";", "}", "get", "(", ")", "{", "return", "this", ".", "n", ";",
       "}", "}", "\n", "var", "a", "=", "A", "(", "1", ")", ";", "var", "m",
       "=", "a", ".", "get", ";", "a", "=", "A", "(", "2", ")", ";", "print",
       "m", "(", ")", ";", "print", "a", ".", "get", "(", ")", ";">>,
      <<"var", "b", "=", "A", "(", "3", ")", ";", "b", ".", "get", "=", "m",
       ";", "print", "b", ".", "get", "(", ")", ";", "print", "b", ".", "n",
       ";", "print", "b", ".", "get", "==", "m", ";", "print", "a", ".", "get",
       "==", "a", ".", "get", ";">>,
      <<"var", "t", "=", "b", ".", "get", ";", "print", "t", "(", ")", ";", "b",
       ".", "n", "=", "b", ".", "get", ";", "print", "b", ".", "n", "(", ")",
       ";">>>>

\* super in a class that overrides the method, with a receiver of a subclass
SessionSuper ==
    <<<<"class", "P", "{", "m", "(", ")", "{", "return", "\"", "P", ";", "}",
       "n", "(", ")", "{", "return", "this", ".", "x", ";", "}", "}", "\n",
       "class", "Q", "<", "P", "{", "m", "(", ")", "{", "return", "\"", "Q",
       ";", "}", "test", "(", ")", "{", "return", "super", ".", "m", "(", ")",
       ";", "}", "get", "(", ")", "{", "var", "f", "=", "super", ".", "n", ";",
       "return", "f", "(", ")", ";", "}", "}", "\n", "class", "R", "<", "Q",
       "{", "m", "(", ")", "{", "return", "\"", "R", ";", "}", "n", "(", ")",
       "{", "return", "0", ";", "}", "}">>,
      <<"var", "r", "=", "R", "(", ")", ";", "r", ".", "x", "=", "7", ";",
       "print", "r", ".", "test", "(", ")", ";", "print", "r", ".", "get", "(",
       ")", ";", "print", "r", ".", "m", "(", ")", ";", "var", "q", "=", "Q",
       "(", ")", ";", "q", ".", "x", "=", "8", ";", "print", "q", ".", "test",
       "(", ")", ";", "print", "q", ".", "get", "(", ")", ";">>,
      <<"P", "=", "R", ";", "print", "r", ".", "test", "(", ")", ";", "print",
       "r", ".", "n", "(", ")", ";">>>>

\* Closures that share a variable, before and after it is closed; captures in both orders and through an enclosing closure
SessionUpvalues ==
    <<<<"var", "g", ";", "var", "s", ";", "fun", "make", "(", ")", "{", "var",
       "a", "=", "1", ";", "var", "b", "=", "2", ";", "fun", "get", "(", ")",
       "{", "return", "a", "+", "b", ";", "}", "fun", "set", "(", "n", ")",
       "{", "a", "=", "n", ";", "b", "=", "n", ";", "}", "g", "=", "get", ";",
       "s", "=", "set", ";", "a", "=", "3", ";", "print", "get", "(", ")", ";",
       "set", "(", "5", ")", ";", "print", "a", "+", "b", ";", "}">>,
      <<"make", "(", ")", ";", "print", "g", "(", ")", ";", "s", "(", "7", ")",
       ";", "print", "g", "(", ")", ";", "var", "h", "=", "g", ";", "make",
       "(", ")", ";", "print", "h", "(", ")", ";", "print", "g", "(", ")", ";">>,
      <<"fun", "outer", "(", ")", "{", "var", "x", "=", "1", ";", "fun", "mid",
       "(", ")", "{", "fun", "inner", "(", ")", "{", "x", "=", "x", "+", "1",
       ";", "return", "x", ";", "}", "return", "inner", ";", "}", "return",
       "mid", "(", ")", ";", "}", "var", "i", "=", "outer", "(", ")", ";",
       "print", "i", "(", ")", ";", "print", "i", "(", ")", ";">>,
      <<"{", "var", "p", "=", "1", ";", "var", "q", "=", "2", ";", "fun", "fq",
       "(", ")", "{", "return", "q", ";", "}", "fun", "fp", "(", ")", "{",
       "return", "p", ";", "}", "fun", "mk", "(", ")", "{", "var", "z", "=",
       "9", ";", "fun", "fz", "(", ")", "{", "return", "z", "+", "p", ";", "}",
       "return", "fz", ";", "}", "var", "k", "=", "mk", "(", ")", ";", "p",
       "=", "4", ";", "print", "fp", "(", ")", "+", "fq", "(", ")", ";",
       "print", "k", "(", ")", ";", "}">>>>

\* A closure that outlives a runtime error in the block of the variable it captured
SessionStaleUpvalue ==
    <<<<"var", "g", ";", "{", "var", "k", "=", "1", ";", "fun", "u", "(", ")",
       "{", "return", "k", ";", "}", "g", "=", "u", ";", "nothing", "(", ")",
       ";", "}">>,
      <<"{", "var", "n", "=", "10", ";", "fun", "w", "(", ")", "{", "n", "=",
       "20", ";", "}", "print", "g", "(", ")", ";", "w", "(", ")", ";",
       "print", "g", "(", ")", ";", "}">>,
      <<"print", "g", "(", ")", ";">>>>

\* A local function that captures its own slot, and methods of a local class that capture super
SessionLocalCaptures ==
    <<<<"{", "fun", "r", "(", "n", ")", "{", "if", "(", "n", ">", "0", ")",
       "return", "r", "(", "n", "-", "1", ")", ";", "return", "7", ";", "}",
       "print", "r", "(", "2", ")", ";", "}">>,
      <<"{", "class", "A", "{", "m", "(", ")", "{", "return", "1", ";", "}",
       "}", "class", "B", "<", "A", "{", "m", "(", ")", "{", "return", "super",
       ".", "m", "(", ")", "+", "1", ";", "}", "}", "var", "b", "=", "B", "(",
       ")", ";", "print", "b", ".", "m", "(", ")", ";", "}">>>>

\* The programs  fun f() { print "B"; return b; }  print "<op>"; print a;
\* print b; print a <op> f();  for the operands a and b and the operators and, or
LogicalOperands == {<<"nil">>, <<"false">>, <<"true">>, <<"0">>, <<"\"", "s">>}
SessionsLogical ==
    {<<<<"fun", "f", "(", ")", "{", "print", "\"", "B", ";", "return">> \o b \o
        <<";", "}", "print", "\"", op, ";", "print">> \o a \o
        <<";", "print">> \o b \o <<";", "print">> \o a \o
        <<op, "f", "(", ")", ";">>>> :
        a \in LogicalOperands, b \in LogicalOperands, op \in {"and", "or"}}
\* The clauses of a for statement: initializer, condition, increment (each one
\* possibly empty) and body
ForInits == {<<>>, <<"var", "i", "=", "0">>, <<"g", "=", "1">>}
ForConds == {<<>>, <<"g", "<", "3">>}
ForIncs == {<<>>, <<"g", "=", "g", "+", "1">>}
ForBodies ==
    {<<"{", "print", "g", ";", "g", "=", "g", "+", "1", ";", "if", "(", "g",
       ">", "3", ")", "return", ";", "}">>,
     <<"if", "(", "g", ">", "2", ")", "return", ";", "else", "g", "=", "g", "+",
       "2", ";">>,
     <<"{", "var", "i", "=", "g", ";", "g", "=", "g", "+", "1", ";", "o", ".",
       "n", "=", "i", ";", "if", "(", "i", ">", "1", ")", "return", "i", ";",
       "}">>}
\* for (init; cond; inc) body
ForLoop(init, cond, inc, body) ==
    <<"for", "(">> \o init \o <<";">> \o cond \o <<";">> \o inc \o <<")">> \o body
\* { init; while (cond) { body inc; } }, with true for an empty condition
WhileLoop(init, cond, inc, body) ==
    <<"{">> \o (IF init = <<>> THEN <<>> ELSE init \o <<";">>) \o
    <<"while", "(">> \o (IF cond = <<>> THEN <<"true">> ELSE cond) \o
    <<")", "{">> \o body \o (IF inc = <<>> THEN <<>> ELSE inc \o <<";">>) \o
    <<"}", "}">>
\* print "for"; var g = 0; class C {} var o = C(); o.n = 0;
\* fun r() { var k = 7; <loop> print k; }  print r(); print g; print o.n;
LoopProgram(loop) ==
    <<"print", "\"", "for", ";", "var", "g", "=", "0", ";", "class", "C", "{",
      "}", "var", "o", "=", "C", "(", ")", ";", "o", ".", "n", "=", "0", ";",
      "fun", "r", "(", ")", "{", "var", "k", "=", "7", ";">> \o loop \o
    <<"print", "k", ";", "}", "print", "r", "(", ")", ";", "print", "g", ";",
      "print", "o", ".", "n", ";">>
\* Each for statement on one line and its while form on the next
SessionsFor ==
    {<<LoopProgram(ForLoop(init, cond, inc, body)),
       LoopProgram(WhileLoop(init, cond, inc, body))>> :
        init \in ForInits, cond \in ForConds, inc \in ForIncs, body \in ForBodies}
\* Jumps and a loop over a CLOSURE instruction with two operand pairs
SessionJumps ==
    <<<<"fun", "outer", "(", ")", "{", "var", "a", "=", "1", ";", "var", "n",
       "=", "0", ";", "while", "(", "n", "<", "3", ")", "{", "fun", "g", "(",
       ")", "{", "return", "a", "+", "n", ";", "}", "if", "(", "g", "(", ")",
       ">", "2", ")", "print", "\"", "big", ";", "else", "print", "g", "(",
       ")", ";", "n", "=", "n", "+", "1", ";", "}", "for", "(", "var", "i",
       "=", "0", ";", "i", "<", "2", ";", "i", "=", "i", "+", "1", ")", "{",
       "fun", "h", "(", ")", "{", "return", "i", "+", "a", ";", "}", "print",
       "h", "(", ")", "or", "a", ";", "}", "}", "outer", "(", ")", ";">>>>

\* A closure that outlives a runtime error and is called when the stack is shorter than the slot it captured
SessionStalePanic ==
    <<<<"var", "v", "=", "1", ";", "var", "g", ";", "{", "var", "a", ";", "var",
       "b", ";", "var", "k", "=", "1", ";", "fun", "u", "(", ")", "{",
       "return", "k", ";", "}", "g", "=", "u", ";", "v", "=", "2", ";",
       "nothing", "(", ")", ";", "}">>,
      <<"print", "v", ";", "print", "g", "(", ")", ";">>,
      <<"print", "v", ";">>>>

\* An unexpected character in the tokens that synchronize skips, then a statement with an error of its own
SessionSkippedError ==
    <<<<"var", "1", "?", ";", "print", ";", "print", "2", ";">>>>

\* Every local variable holds the number of its slot: blocks, a captured local, a function and a method
SessionSlots ==
    <<<<"print", "\"", "slots", ";", "{", "var", "a", "=", "1", ";", "var", "b",
       "=", "2", ";", "{", "var", "c", "=", "3", ";", "print", "a", "+", "c",
       ";", "fun", "g", "(", ")", "{", "return", "c", ";", "}", "}", "{",
       "var", "d", "=", "3", ";", "var", "e", "=", "4", ";", "print", "d", "+",
       "e", ";", "}", "var", "f", "=", "3", ";", "b", "=", "2", ";", "print",
       "b", "+", "f", ";", "}", "fun", "f", "(", "p", ",", "q", ")", "{",
       "var", "r", "=", "3", ";", "{", "var", "s", "=", "4", ";", "print", "p",
       "+", "s", ";", "}", "var", "t", "=", "4", ";", "return", "q", "+", "r",
       "+", "t", ";", "}", "print", "f", "(", "1", ",", "2", ")", ";", "class",
       "K", "{", "m", "(", "x", ")", "{", "var", "y", "=", "2", ";", "return",
       "x", "+", "y", ";", "}", "}", "print", "K", "(", ")", ".", "m", "(",
       "1", ")", ";">>>>

\* Names declared twice in one scope, and names that shadow a local of an enclosing scope
SessionRedeclare ==
    <<<<"fun", "f", "(", "a", ",", "a", ")", "{", "}">>,
      <<"{", "fun", "f", "(", ")", "{", "}", "fun", "f", "(", ")", "{", "}", "}">>,
      <<"{", "class", "A", "{", "}", "class", "A", "{", "}", "}">>,
      <<"{", "var", "a", ";", "fun", "a", "(", ")", "{", "}", "}">>,
      <<"fun", "f", "(", "a", ")", "{", "var", "a", ";", "}">>,
      <<"print", "\"", "shadow", ";", "{", "var", "a", "=", "1", ";", "{",
       "var", "a", "=", "2", ";", "print", "a", ";", "}", "print", "a", ";",
       "fun", "f", "(", "a", ")", "{", "print", "a", ";", "{", "var", "a", "=",
       "4", ";", "print", "a", ";", "}", "}", "f", "(", "3", ")", ";", "}">>>>

\* n arguments nil, each followed by a comma
Nils(n) == [i \in 1..(2 * n) |-> IF i % 2 = 1 THEN "nil" ELSE ","]
MaxCallArguments == 256
\* A call with MaxCallArguments arguments
SessionManyArguments ==
    << <<"nil", "(">> \o Nils(MaxCallArguments - 1) \o <<"nil", ")", ";">> >>

\* Invocations of methods, of fields that hide a method, and of fields that hold other values
SessionInvoke ==
    <<<<"class", "E", "{", "m", "(", "a", ")", "{", "return", "1", ";", "}",
       "n", "(", "a", ")", "{", "return", "a", ";", "}", "}", "fun", "two",
       "(", "a", ")", "{", "return", "2", ";", "}", "var", "e", "=", "E", "(",
       ")", ";">>,
      <<"print", "e", ".", "m", "(", "0", ")", ";", "e", ".", "m", "=", "two",
       ";", "print", "e", ".", "m", "(", "0", ")", ";", "var", "g", "=", "e",
       ".", "m", ";", "print", "g", "(", "0", ")", ";", "print", "e", ".", "n",
       "(", "5", ")", ";">>,
      <<"print", "e", ".", "n", "(", ")", ";">>,
      <<"e", ".", "k", "=", "3", ";", "e", ".", "k", "(", ")", ";">>,
      <<"e", ".", "c", "=", "E", ";", "print", "e", ".", "c", "(", ")", ";">>,
      <<"e", ".", "b", "=", "e", ".", "n", ";", "print", "e", ".", "b", "(",
       "6", ")", ";">>,
      <<"e", ".", "t", "=", "clock", ";", "print", "e", ".", "t", "(", "1", ",",
       "2", ")", ";">>,
      <<"e", ".", "m", "(", ")", ";">>>>

\* Each kind of value compared with itself
SessionEqualSelf ==
    <<<<"print", "nil", "==", "nil", ";", "print", "true", "==", "true", ";",
       "print", "1", "==", "1", ";", "print", "\"", "a", "==", "\"", "a", ";">>,
      <<"fun", "f", "(", ")", "{", "}", "print", "f", "==", "f", ";", "class",
       "K", "{", "m", "(", ")", "{", "}", "}", "print", "K", "==", "K", ";",
       "var", "k", "=", "K", "(", ")", ";", "print", "k", "==", "k", ";",
       "var", "b", "=", "k", ".", "m", ";", "print", "b", "==", "b", ";">>,
      <<"print", "clock", "==", "clock", ";">>>>

Sessions ==
    {SessionArithmetic, SessionControl, SessionClosures, SessionClasses,
     SessionRuntimeErrors, SessionCompileErrors, SessionVarNoInitializer,
     SessionOverflow, SessionDeep, SessionDeepArity, SessionDeepInit,
     SessionDeepNotCallable, SessionBound, SessionSuper, SessionUpvalues,
     SessionStaleUpvalue, SessionLocalCaptures, SessionJumps,
     SessionStalePanic, SessionSkippedError, SessionSlots,
     SessionRedeclare, SessionManyArguments, SessionInvoke,
     SessionEqualSelf}
    \cup SessionsLogical \cup SessionsFor

(***************************************************************************)
(* The specification of the VM.                                             *)
(***************************************************************************)
NoParser == [ks |-> <<>>]
\* The process (main.rs): where it is, its arguments and its exit status, -1
\* while it runs.  ProcessRepl is the process inside the loop of repl.
ProcessRepl == [pc |-> "repl", args |-> <<"rox">>, exit |-> -1]
\* next_gc of a new Gc: about 1 MiB, which the sessions below never reach
NextGcStart == 1048576
ScanIdle == [phase |-> "Idle"]

\* VM::new: the Gc holds "init" and the name of the native
VmNew ==
    LET i == GcIntern(<<>>, "init")
        c == GcIntern(i.heap, "clock")
    IN [heap |-> c.heap, globals |-> TableInsert(TableNew, c.h, NativeClock)]

Init ==
    /\ heap = VmNew.heap
    /\ globals = VmNew.globals
    /\ stack = <<>>
    /\ frames = <<>>
    /\ open_upvalues = <<>>
    /\ input \in Sessions
    /\ result = "Idle"
    /\ parser = NoParser
    /\ out = <<>>
    /\ err = <<>>
    /\ scan = ScanIdle
    /\ process = ProcessRepl
    /\ next_gc = NextGcStart

\* VM::interpret is called with the next source: compile creates the Parser
Interpret ==
    /\ result \in {"Idle", "Ok", "CompileError", "RuntimeError"}
    /\ input # <<>>
    /\ input' = Tail(input)
    /\ result' = "Compiling"
    /\ parser' = [ParserNew(Head(input), heap) EXCEPT !.heap = <<>>]
    /\ heap' = ParserNew(Head(input), heap).heap
    /\ UNCHANGED <<stack, frames, globals, open_upvalues, out, err, scan, process, next_gc>>

\* One step of Parser::compile.  The parser allocates in the Gc of the VM and
\* writes its diagnostics to stderr.  An arithmetic overflow panics in a build
\* with overflow checks, and wraps in a build without them.
CompileStep ==
    /\ result = "Compiling"
    /\ parser.ks # <<>>
    /\ \E P \in {parse_step([parser EXCEPT !.heap = heap])} :
        /\ parser' = [P EXCEPT !.heap = <<>>, !.diags = <<>>, !.overflow = FALSE]
        /\ heap' = P.heap
        /\ err' = err \o P.diags
        /\ \E checked \in (IF P.overflow THEN BOOLEAN ELSE {FALSE}) :
              result' = IF checked THEN "Panic" ELSE result
    /\ UNCHANGED <<stack, frames, globals, open_upvalues, input, out, scan,
                   process, next_gc>>

\* interpret without the test of what compile returned
CompileEndIgnoringErrors ==
    /\ result = "Compiling"
    /\ parser.ks = <<>>
    /\ parser' = NoParser
    /\ \E f \in {GcAlloc(heap, Cur(parser).function)} :
       \E c \in {GcAlloc(f.heap, [k |-> "Closure", function |-> f.h,
                                    upvalues |-> <<>>])} :
          /\ result' = "Running"
          /\ heap' = c.heap
          /\ stack' = StackPush(stack, Obj("Closure", c.h))
          /\ frames' = Append(frames, [closure |-> c.h, ip |-> 0, slot |-> 0])
    /\ UNCHANGED <<globals, open_upvalues, input, out, err, scan, process, next_gc>>

\* compile returns, and interpret goes on up to its call of run
CompileEnd ==
    /\ result = "Compiling"
    /\ parser.ks = <<>>
    /\ parser' = NoParser
    /\ IF parser.had_error
       THEN /\ result' = "CompileError"
            /\ UNCHANGED <<heap, stack, frames, next_gc>>
       ELSE \E f \in {GcAlloc(heap, Cur(parser).function)} :
            \E c \in {alloc([Machine EXCEPT !.heap = f.heap],
                            [k |-> "Closure", function |-> f.h, upvalues |-> <<>>])} :
               /\ result' = "Running"
               /\ heap' = c.m.heap
               /\ next_gc' = c.m.next_gc
               /\ stack' = StackPush(stack, Obj("Closure", c.h))
               /\ frames' = Append(frames, [closure |-> c.h, ip |-> 0, slot |-> 0])
    /\ UNCHANGED <<globals, open_upvalues, input, out, err, scan, process, next_gc>>

\* run is at an instruction with opcode op; FrameLive: the closure and the
\* function of its frame have not been reclaimed
FrameLive ==
    /\ heap[Last(frames).closure].k = "Closure"
    /\ heap[heap[Last(frames).closure].function].k = "Function"
At(op) == result = "Running" /\ FrameLive /\ CodeAt(Machine, 0) = op

\* The VM after one turn of the loop of run
Commit(M) ==
    /\ heap' = M.heap
    /\ stack' = M.stack
    /\ frames' = M.frames
    /\ globals' = M.globals
    /\ open_upvalues' = M.open_upvalues
    /\ out' = M.out
    /\ err' = M.err
    /\ next_gc' = M.next_gc
    /\ result' = IF M.panic THEN "Panic"
                 ELSE IF ~M.ok THEN "RuntimeError" ELSE M.ret
    /\ UNCHANGED <<input, parser, scan, process>>

DoOpConstant == At(OpConstant) /\ Commit(op_constant(Machine))
DoOpNil == At(OpNil) /\ Commit(op_nil(Machine))
DoOpTrue == At(OpTrue) /\ Commit(op_true(Machine))
DoOpFalse == At(OpFalse) /\ Commit(op_false(Machine))
DoOpPop == At(OpPop) /\ Commit(op_pop(Machine))
DoOpGetLocal == At(OpGetLocal) /\ Commit(op_get_local(Machine))
DoOpSetLocal == At(OpSetLocal) /\ Commit(op_set_local(Machine))
DoOpGetGlobal == At(OpGetGlobal) /\ Commit(op_get_global(Machine))
DoOpDefineGlobal == At(OpDefineGlobal) /\ Commit(op_define_global(Machine))
\* OpSetGlobal that inserts the name before it reports that it is undefined
op_set_global_creating(M) ==
    LET name == read_string(M, 1) IN
    IF name \in DOMAIN M.globals
    THEN [Skip(M, 2) EXCEPT !.globals = TableInsert(@, name, peek(M, 0))]
    ELSE runtime_error([Skip(M, 2) EXCEPT
                            !.globals = TableInsert(@, name, peek(M, 0))],
                       "Undefined variable '" \o M.heap[name].s \o "'.")
DoOpSetGlobalCreating == At(OpSetGlobal) /\ Commit(op_set_global_creating(Machine))
DoOpSetGlobal == At(OpSetGlobal) /\ Commit(op_set_global(Machine))
DoOpGetUpvalue == At(OpGetUpvalue) /\ Commit(op_get_upvalue(Machine))
DoOpSetUpvalue == At(OpSetUpvalue) /\ Commit(op_set_upvalue(Machine))
DoOpGetProperty == At(OpGetProperty) /\ Commit(op_get_property(Machine))
DoOpSetProperty == At(OpSetProperty) /\ Commit(op_set_property(Machine))
DoOpGetSuper == At(OpGetSuper) /\ Commit(op_get_super(Machine))
DoOpEqual == At(OpEqual) /\ Commit(op_equal(Machine))
DoOpGreater == At(OpGreater) /\ Commit(op_greater(Machine))
DoOpLess == At(OpLess) /\ Commit(op_less(Machine))
DoOpAdd == At(OpAdd) /\ Commit(op_add(Machine))
DoOpSubtract == At(OpSubtract) /\ Commit(op_subtract(Machine))
DoOpMultiply == At(OpMultiply) /\ Commit(op_multiply(Machine))
DoOpDivide == At(OpDivide) /\ Divisible(Machine) /\ Commit(op_divide(Machine))
DoOpNot == At(OpNot) /\ Commit(op_not(Machine))
DoOpNegate == At(OpNegate) /\ Commit(op_negate(Machine))
DoOpPrint == At(OpPrint) /\ Commit(op_print(Machine))
DoOpJump == At(OpJump) /\ Commit(op_jump(Machine))
DoOpJumpIfFalse == At(OpJumpIfFalse) /\ Commit(op_jump_if_false(Machine))
DoOpLoop == At(OpLoop) /\ Commit(op_loop(Machine))
DoOpCall == At(OpCall) /\ Commit(op_call(Machine))
DoOpInvoke == At(OpInvoke) /\ Commit(op_invoke(Machine))
DoOpSuperInvoke == At(OpSuperInvoke) /\ Commit(op_super_invoke(Machine))
DoOpClosure == At(OpClosure) /\ Commit(op_closure(Machine))
DoOpCloseUpvalue == At(OpCloseUpvalue) /\ Commit(op_close_upvalue(Machine))
DoOpReturn == At(OpReturn) /\ Commit(op_return(Machine))
DoOpClass == At(OpClass) /\ Commit(op_class(Machine))
DoOpInherit == At(OpInherit) /\ Commit(op_inherit(Machine))
DoOpMethod == At(OpMethod) /\ Commit(op_method(Machine))

Run ==
    \/ DoOpConstant
    \/ DoOpNil
    \/ DoOpTrue
    \/ DoOpFalse
    \/ DoOpPop
    \/ DoOpGetLocal
    \/ DoOpSetLocal
    \/ DoOpGetGlobal
    \/ DoOpDefineGlobal
    \/ DoOpSetGlobal
    \/ DoOpGetUpvalue
    \/ DoOpSetUpvalue
    \/ DoOpGetProperty
    \/ DoOpSetProperty
    \/ DoOpGetSuper
    \/ DoOpEqual
    \/ DoOpGreater
    \/ DoOpLess
    \/ DoOpAdd
    \/ DoOpSubtract
    \/ DoOpMultiply
    \/ DoOpDivide
    \/ DoOpNot
    \/ DoOpNegate
    \/ DoOpPrint
    \/ DoOpJump
    \/ DoOpJumpIfFalse
    \/ DoOpLoop
    \/ DoOpCall
    \/ DoOpInvoke
    \/ DoOpSuperInvoke
    \/ DoOpClosure
    \/ DoOpCloseUpvalue
    \/ DoOpReturn
    \/ DoOpClass
    \/ DoOpInherit
    \/ DoOpMethod

Next == Interpret \/ CompileStep \/ CompileEnd \/ Run

Spec == Init /\ [][Next]_vars

(***************************************************************************)
(* The stack-depth specification: the VM is given one source, a function    *)
(* whose body holds MaxTemporaries temporaries on the stack when it calls   *)
(* itself:                                                                  *)
(*   fun f() { nil(nil, ... 254 times ..., nil(nil, ... 5 times ..., f())); } f();  *)
(* A call compiles its callee and its arguments before the CALL, so the     *)
(* callees nil are never called.                                            *)
(***************************************************************************)
MaxArguments == 254
MaxTemporaries == 261
SessionStackDepth ==
    << <<"fun", "f", "(", ")", "{", "nil", "(">> \o Nils(MaxArguments)
       \o <<"nil", "(">> \o Nils(MaxTemporaries - MaxArguments - 2)
       \o <<"f", "(", ")", ")", ")", ";", "}", "f", "(", ")", ";">> >>

InitDepth ==
    /\ heap = VmNew.heap
    /\ globals = VmNew.globals
    /\ stack = <<>>
    /\ frames = <<>>
    /\ open_upvalues = <<>>
    /\ input = SessionStackDepth
    /\ result = "Idle"
    /\ parser = NoParser
    /\ out = <<>>
    /\ err = <<>>
    /\ scan = ScanIdle
    /\ process = ProcessRepl
    /\ next_gc = NextGcStart

\* The instructions of that source
NextDepth ==
    \/ Interpret
    \/ CompileStep
    \/ CompileEnd
    \/ DoOpNil
    \/ DoOpGetGlobal
    \/ DoOpDefineGlobal
    \/ DoOpClosure
    \/ DoOpCall

SpecDepth == InitDepth /\ [][NextDepth]_vars

(***************************************************************************)
(* The scanner, character by character (scanner.rs).  A source is its       *)
(* sequence of characters; text is the same source as a str, which is       *)
(* indexed by bytes.  S is the Scanner: start and current count characters, *)
(* index is the peek position of the MultiPeek iterator source.             *)
(***************************************************************************)
\* a character whose UTF-8 encoding takes two bytes
NonAscii == "U+00E9"
len_utf8(ch) == IF ch = NonAscii THEN 2 ELSE 1

is_ascii_digit(ch) == \E i \in 1..10 : Digit[i] = ch
is_ascii_alphabetic(ch) ==
    ch \in {"a", "b", "c", "d", "e", "f", "g", "h", "i", "j", "k", "l", "m",
            "n", "o", "p", "q", "r", "s", "t", "u", "v", "w", "x", "y", "z"}

\* the number of bytes of the first k characters
RECURSIVE ByteOffset(_, _)
ByteOffset(text, k) ==
    IF k = 0 THEN 0 ELSE ByteOffset(text, k - 1) + len_utf8(text[k])
is_char_boundary(text, i) == \E k \in 0..Len(text) : ByteOffset(text, k) = i
CharsBefore(text, i) == CHOOSE k \in 0..Len(text) : ByteOffset(text, k) = i

RECURSIVE Join(_)
Join(chars) == IF chars = <<>> THEN "" ELSE Head(chars) \o Join(Tail(chars))

\* &text[from..to]: a str slice panics when an end is not a char boundary
Slice(text, from, to) ==
    IF from <= to /\ is_char_boundary(text, from) /\ is_char_boundary(text, to)
    THEN [panic |-> FALSE,
          value |-> Join(SubSeq(text, CharsBefore(text, from) + 1,
                                CharsBefore(text, to)))]
    ELSE [panic |-> TRUE, value |-> ""]

ScannerFrom(source) ==
    [text |-> source, start |-> 0, current |-> 0, line |-> 1,
     is_finished |-> FALSE, index |-> 0]

\* MultiPeek::peek looks one character further at each call, until next or
\* reset_peek: [s, ch]
source_peek(S) ==
    IF S.current + S.index < Len(S.text)
    THEN [s |-> [S EXCEPT !.index = @ + 1],
          ch |-> Some(S.text[S.current + S.index + 1])]
    ELSE [s |-> S, ch |-> None]
reset_peek(S) == [S EXCEPT !.index = 0]

\* Scanner::advance: [s, ch]
scanner_advance(S) ==
    IF S.current < Len(S.text)
    THEN [s |-> [S EXCEPT !.current = @ + 1, !.index = 0],
          ch |-> Some(S.text[S.current + 1])]
    ELSE [s |-> [S EXCEPT !.index = 0], ch |-> None]

\* What a scanning function returns: [s, token, panic], token = None for None
Scanned(S, token) == [s |-> S, token |-> Some(token), panic |-> FALSE]
Panicked(S) == [s |-> S, token |-> None, panic |-> TRUE]

make_token(S, token_type) ==
    LET sl == IF token_type = "String"
              THEN Slice(S.text, S.start + 1, S.current - 1)
              ELSE Slice(S.text, S.start, S.current)
    IN IF sl.panic THEN Panicked(S)
       ELSE Scanned(S, Token(token_type, sl.value, S.line))

error_token(S, message) == Scanned(S, Token("Error", message, S.line))

match_token(S, expected, t, f) ==
    LET p == source_peek(S) IN
    IF p.ch = Some(expected) THEN make_token(scanner_advance(p.s).s, t)
    ELSE make_token(p.s, f)

\* while self.source.peek().map_or(false, Test) { self.advance(); }
\* After an advance the peek position is 0: the loop consumes the characters
\* that pass Test, and its last peek is of the character that ends it.
scan_while_rest(S, Test(_)) ==
    LET n == Max({m \in 0..(Len(S.text) - S.current) :
                    \A j \in 1..m : Test(S.text[S.current + j])})
    IN source_peek([S EXCEPT !.current = @ + n]).s
scan_while(S, Test(_)) ==
    LET p == source_peek(S) IN
    IF p.ch.some /\ Test(p.ch.val) THEN scan_while_rest(scanner_advance(p.s).s, Test)
    ELSE p.s

RECURSIVE scan_string_loop(_)
scan_string_loop(S) ==
    LET p == source_peek(S) IN
    IF p.ch.some /\ p.ch.val # "\""
    THEN LET q == source_peek(reset_peek(p.s))
             S1 == IF q.ch = Some("\n") THEN [q.s EXCEPT !.line = @ + 1] ELSE q.s
         IN scan_string_loop(scanner_advance(S1).s)
    ELSE p.s

scan_string(S) ==
    LET p == source_peek(scan_string_loop(S)) IN
    IF p.ch = None THEN error_token(p.s, "Unterminated string.")
    ELSE make_token(scanner_advance(p.s).s, "String")

scan_number(S) ==
    LET S1 == reset_peek(scan_while(S, is_ascii_digit))
        point == source_peek(S1)
        digit == source_peek(point.s)
    IN IF point.ch # Some(".") THEN make_token(point.s, "Number")
       ELSE IF digit.ch.some /\ is_ascii_digit(digit.ch.val)
       THEN make_token(scan_while(scanner_advance(digit.s).s, is_ascii_digit),
                       "Number")
       ELSE make_token(digit.s, "Number")

\* identifier_type slices the text as make_token does
scan_identifier(S) ==
    LET S1 == scan_while(S, LAMBDA ch : is_ascii_alphabetic(ch) \/ ch = "_")
        sl == Slice(S1.text, S1.start, S1.current)
    IN IF sl.panic THEN Panicked(S1) ELSE make_token(S1, identifier_type(sl.value))

RECURSIVE scan_token(_)
scan_comment(S) ==
    LET p == source_peek(S) IN
    IF p.ch = Some("/") THEN scan_token(scan_while(p.s, LAMBDA ch : ch # "\n"))
    ELSE make_token(p.s, "Slash")

scan_token(S0) ==
    LET a == scanner_advance([S0 EXCEPT !.start = S0.current])
        S == a.s
        ch == a.ch.val
    IN IF a.ch.some
       THEN CASE ch \in {"(", ")", "{", "}", ";", ",", ".", "-", "+", "*"} ->
                    make_token(S, Punctuation[ch])
              [] ch = "/" -> scan_comment(S)
              [] ch = "!" -> match_token(S, "=", "BangEqual", "Bang")
              [] ch = "=" -> match_token(S, "=", "EqualEqual", "Equal")
              [] ch = "<" -> match_token(S, "=", "LessEqual", "Less")
              [] ch = ">" -> match_token(S, "=", "GreaterEqual", "Greater")
              [] ch \in {" ", "\t", "\r"} -> scan_token(S)
              [] ch = "\n" -> scan_token([S EXCEPT !.line = @ + 1])
              [] ch = "\"" -> scan_string(S)
              [] is_ascii_digit(ch) -> scan_number(S)
              [] is_ascii_alphabetic(ch) \/ ch = "_" -> scan_identifier(S)
              [] OTHER -> error_token(S, "Unexpected character")
       ELSE IF S.is_finished THEN [s |-> S, token |-> None, panic |-> FALSE]
       ELSE make_token([S EXCEPT !.is_finished = TRUE], "Eof")

(***************************************************************************)
(* The scanning specification: the parser takes the tokens of a source from *)
(* the scanner one by one (Parser::advance), up to the end of the source.   *)
(* scan.phase is "Scanning" while tokens remain, "Finished" after the       *)
(* scanner has returned None, "Panic" when a call has panicked.             *)
(***************************************************************************)
MaxSourceLen == 3
Alphabet == {"o", "r", "1", ".", "\"", "/", "\n", " ", "=", NonAscii}
Sources == UNION {[1..n -> Alphabet] : n \in 0..MaxSourceLen}

InitScan ==
    /\ heap = VmNew.heap
    /\ globals = VmNew.globals
    /\ stack = <<>>
    /\ frames = <<>>
    /\ open_upvalues = <<>>
    /\ input = <<>>
    /\ result = "Idle"
    /\ parser = NoParser
    /\ out = <<>>
    /\ err = <<>>
    /\ \E source \in Sources :
          scan = [phase |-> "Scanning", scanner |-> ScannerFrom(source),
                  tokens |-> <<>>]
    /\ process = ProcessRepl
    /\ next_gc = NextGcStart

\* Scanner::next
ScanToken ==
    /\ scan.phase = "Scanning"
    /\ \E r \in {scan_token(scan.scanner)} :
          scan' = [phase |-> IF r.panic THEN "Panic"
                             ELSE IF r.token.some THEN "Scanning" ELSE "Finished",
                   scanner |-> r.s,
                   tokens |-> IF r.token.some THEN Append(scan.tokens, r.token.val)
                              ELSE scan.tokens]
    /\ UNCHANGED <<heap, stack, frames, globals, open_upvalues, input, result,
                   parser, out, err, process, next_gc>>

NextScan == ScanToken

SpecScan == InitScan /\ [][NextScan]_vars

(***************************************************************************)
(* The process: main, repl and run_file of main.rs.                        *)
(***************************************************************************)
\* The files of the file mode: fs::read_to_string gives the contents of a
\* file or fails.
Files ==
    [path \in {"ok.lox", "bad.lox", "undef.lox", "late.lox", "missing.lox"} |->
        IF path = "ok.lox"
        THEN Some(<<"print", "1", ";", "print", "2", ";", "print", "3", ";">>)
        ELSE IF path = "bad.lox"
        THEN Some(<<"print", "1", ";", "print", "2">>)
        ELSE IF path = "undef.lox"
        THEN Some(<<"print", "x", ";", "print", "2", ";">>)
        ELSE IF path = "late.lox"
        THEN Some(<<"print", "1", ";", "print", "2", ";", "print", "x", ";">>)
        ELSE None]
\* env::args(): the program name and the arguments
ArgumentLists ==
    {<<"rox">>, <<"rox", "ok.lox", "bad.lox">>}
    \cup {<<"rox", path>> : path \in DOMAIN Files}

\* What the standard input of the REPL holds: its lines, and what read_line
\* gives after them, the end of the input ("eof") or an error
StandardInputs ==
    [lines : {<<>>, << <<"print", "1", ";">> >>,
              << <<"print", "x", ";">>, <<"print", "2", ";">> >>},
     end : {"eof", "error"}]
MaxReads == 4

InitMain ==
    /\ heap = VmNew.heap
    /\ globals = VmNew.globals
    /\ stack = <<>>
    /\ frames = <<>>
    /\ open_upvalues = <<>>
    /\ input = <<>>
    /\ result = "Idle"
    /\ parser = NoParser
    /\ out = <<>>
    /\ err = <<>>
    /\ scan = ScanIdle
    /\ \E args \in ArgumentLists :
          \E stdin \in (IF Len(args) = 1 THEN StandardInputs
                        ELSE {[lines |-> <<>>, end |-> "eof"]}) :
              process = [pc |-> "main", args |-> args, exit |-> -1,
                         stdin |-> stdin, reads |-> 0]
    /\ next_gc = NextGcStart

\* main: the mode by the number of arguments; more than one is a misuse
main ==
    /\ process.pc = "main"
    /\ IF Len(process.args) = 1
       THEN process' = [process EXCEPT !.pc = "repl"] /\ err' = err
       ELSE IF Len(process.args) = 2
       THEN process' = [process EXCEPT !.pc = "run_file"] /\ err' = err
       ELSE /\ process' = [process EXCEPT !.pc = "exited", !.exit = 64]
            /\ err' = Append(err, [msg |-> "Usage: clox [path]", trace |-> <<>>])
    /\ UNCHANGED <<heap, stack, frames, globals, open_upvalues, input, result,
                   parser, out, scan, next_gc>>

\* One turn of the loop of repl, up to the call of interpret: the prompt, then
\* read_line.  It gives the next line, or Ok(0) and no text at the end of the
\* input, or an error; only the error ends the loop, and main returns.
\* process.reads counts the calls of read_line, at most MaxReads.
repl ==
    /\ process.pc = "repl"
    /\ input = <<>>
    /\ result \in {"Idle", "Ok", "CompileError", "RuntimeError"}
    /\ process.reads < MaxReads
    /\ IF process.stdin.lines # <<>>
       THEN /\ out' = Append(out, "> ")
            /\ input' = <<Head(process.stdin.lines)>>
            /\ process' = [process EXCEPT !.stdin.lines = Tail(@), !.reads = @ + 1]
       ELSE IF process.stdin.end = "error"
       THEN /\ out' = out \o <<"> ", "">>
            /\ input' = input
            /\ process' = [process EXCEPT !.pc = "exited", !.exit = 0,
                                          !.reads = @ + 1]
       ELSE /\ out' = Append(out, "> ")
            /\ input' = << <<>> >>
            /\ process' = [process EXCEPT !.reads = @ + 1]
    /\ UNCHANGED <<heap, stack, frames, globals, open_upvalues, result,
                   parser, err, scan, next_gc>>

\* run_file up to the call of interpret: expect panics when the file cannot
\* be read, and a Rust process that panics exits with status 101
run_file ==
    /\ process.pc = "run_file"
    /\ LET contents == Files[process.args[2]]
       IN IF contents.some
          THEN /\ process' = [process EXCEPT !.pc = "interpret"]
               /\ input' = <<contents.val>>
          ELSE /\ process' = [process EXCEPT !.pc = "panicked", !.exit = 101]
               /\ input' = input
    /\ UNCHANGED <<heap, stack, frames, globals, open_upvalues, result, parser,
                   out, err, scan, next_gc>>

\* run_file after interpret has returned: its value is dropped, run_file and
\* main return
run_file_return ==
    /\ process.pc = "interpret"
    /\ input = <<>>
    /\ result \in {"Ok", "CompileError", "RuntimeError"}
    /\ process' = [process EXCEPT !.pc = "exited", !.exit = 0]
    /\ UNCHANGED <<heap, stack, frames, globals, open_upvalues, input, result,
                   parser, out, err, scan, next_gc>>

\* The process, with the instructions of the three files
NextMain ==
    \/ main
    \/ repl
    \/ run_file
    \/ run_file_return
    \/ Interpret
    \/ CompileStep
    \/ CompileEnd
    \/ DoOpConstant
    \/ DoOpGetGlobal
    \/ DoOpPrint
    \/ DoOpNil
    \/ DoOpReturn

SpecMain == InitMain /\ [][NextMain]_vars

(***************************************************************************)
(* The collecting specification: a Gc whose next_gc starts low, so that    *)
(* collections happen at the allocations of the sessions below.             *)
(***************************************************************************)
\* Every kind of object is allocated while run is under way, and strings are
\* concatenated and compared
SessionGcObjects ==
    <<<<"class", "C", "{", "m", "(", ")", "{", "return", "\"", "a", "+", "\"",
       "b", ";", "}", "}", "var", "o", "=", "C", "(", ")", ";", "var", "s",
       "=", "o", ".", "m", "(", ")", ";", "var", "m", "=", "o", ".", "m", ";",
       "fun", "mk", "(", ")", "{", "var", "k", "=", "\"", "a", ";", "fun", "g",
       "(", ")", "{", "return", "k", "+", "\"", "b", ";", "}", "return", "g",
       ";", "}", "print", "s", "==", "mk", "(", ")", "(", ")", ";", "print",
       "s", "==", "\"", "ab", ";", "print", "m", "(", ")", "==", "\"", "a",
       "+", "\"", "b", ";", "print", "\"", "a", "+", "\"", "c", "==", "\"",
       "a", "+", "\"", "c", ";", "print", "\"", "a", "+", "\"", "c", ";">>>>

\* Lines of a REPL that use what earlier lines have defined
SessionGcRepl ==
    <<<<"var", "s", "=", "\"", "a", "+", "\"", "b", ";", "fun", "f", "(", ")",
       "{", "return", "s", ";", "}">>,
      <<"print", "f", "(", ")", "==", "\"", "ab", ";", "print", "\"", "a", "+",
       "\"", "b", "==", "s", ";">>,
      <<"print", "s", "+", "s", ";">>>>

SessionsGc == {SessionGcObjects, SessionGcRepl}
MaxNextGc == 60

InitGc ==
    /\ heap = VmNew.heap
    /\ globals = VmNew.globals
    /\ stack = <<>>
    /\ frames = <<>>
    /\ open_upvalues = <<>>
    /\ input \in SessionsGc
    /\ result = "Idle"
    /\ parser = NoParser
    /\ out = <<>>
    /\ err = <<>>
    /\ scan = ScanIdle
    /\ process = ProcessRepl
    /\ next_gc \in 0..MaxNextGc

\* run reads the chunk of its frame through a handle whose object has been
\* reclaimed; what Gc::deref does then is not determined here
DerefReclaimed ==
    /\ result = "Running"
    /\ ~FrameLive
    /\ result' = "Dangling"
    /\ UNCHANGED <<heap, stack, frames, globals, open_upvalues, input, parser,
                   out, err, scan, process, next_gc>>

\* The steps of the two sessions
NextGc ==
    \/ Interpret
    \/ CompileStep
    \/ CompileEnd
    \/ DerefReclaimed
    \/ DoOpConstant
    \/ DoOpNil
    \/ DoOpPop
    \/ DoOpGetLocal
    \/ DoOpGetGlobal
    \/ DoOpDefineGlobal
    \/ DoOpGetUpvalue
    \/ DoOpGetProperty
    \/ DoOpEqual
    \/ DoOpAdd
    \/ DoOpPrint
    \/ DoOpCall
    \/ DoOpInvoke
    \/ DoOpClosure
    \/ DoOpReturn
    \/ DoOpClass
    \/ DoOpMethod

SpecGc == InitGc /\ [][NextGc]_vars
(***************************************************************************)
(* Properties.                                                              *)
(***************************************************************************)

\* C1: when interpret returns Ok (the program compiled and ran to the
\* top-level RETURN without a runtime error), the value stack is empty and
\* the frame stack is empty.
C1_OkLeavesStacksEmpty == result = "Ok" => stack = <<>> /\ frames = <<>>

\* a source of several print statements has been interpreted and returned Ok
C1_Witness == result = "Ok" /\ Len(out) >= 5

\* C2: whenever run returns RuntimeError, runtime_error has been called (one
\* more message on stderr) and the value stack, the frame stack and the list
\* of open upvalues are all empty at the return.
C2_RuntimeErrorResets ==
    [][(result = "Running" /\ result' = "RuntimeError") =>
          /\ Len(err') = Len(err) + 1
          /\ stack' = <<>>
          /\ frames' = <<>>
          /\ open_upvalues' = <<>>]_vars

\* run has returned RuntimeError from inside a called function
C2_Witness ==
    /\ result = "RuntimeError"
    /\ err # <<>>
    /\ Len(Last(err).trace) > 1
    /\ stack = <<>>

\* C3: if the compiler reports at least one error, interpret returns
\* CompileError, and it does so exactly then; from the call of interpret to
\* that return the value stack, the frames and the globals stay as they were.
C3_CompileErrorRunsNothing ==
    [][/\ (result' \in {"Compiling", "CompileError"}) =>
              UNCHANGED <<stack, frames, globals>>
       /\ (result = "Compiling" /\ result' # "Compiling") =>
              ((result' = "CompileError") <=> parser.had_error)]_vars

\* interpret has returned CompileError in a VM that holds a global of an
\* earlier source
C3_Witness ==
    /\ result = "CompileError"
    /\ err # <<>>
    /\ Cardinality(DOMAIN globals) > 1

\* C4: for every source, compile terminates.  The compiler is deterministic,
\* so a compile that terminates never comes to a state that its next step
\* leaves as it is: from such a state it repeats that step for ever.
C4_CompileTerminates ==
    (result = "Compiling" /\ parser.ks # <<>>) =>
        LET P == parse_step([parser EXCEPT !.heap = heap])
        IN ~(/\ [P EXCEPT !.heap = <<>>] = parser
             /\ P.heap = heap
             /\ P.diags = <<>>)

\* C5: no source makes interpret abort with a panic.
C5_NoPanic == scan.phase # "Panic" /\ result # "Panic"

C7_StackDepthBounded == StackLen(stack) <= STACK_MAX

\* C8: CALL n on a closure whose function's arity is not n pushes no frame
\* and gives RuntimeError; with arity n and fewer than FRAME_MAX frames it
\* pushes exactly one frame, with ip 0 and slot = stack depth - n - 1, so
\* that the frame's slot 0 holds the callee and its slots 1..n the
\* arguments; the caller's frame is past the instruction and the stack is
\* unchanged.
C8_ClosureCall ==
    [][(At(OpCall) /\ peek(Machine, CodeAt(Machine, 1)).t = "Closure") =>
          LET n == CodeAt(Machine, 1)
              callee == peek(Machine, n)
              slot == StackLen(stack) - n - 1
          IN IF heap[heap[callee.v].function].arity # n
             THEN result' = "RuntimeError" /\ frames' = <<>>
             ELSE Len(frames) < FRAME_MAX =>
                  /\ result' = "Running"
                  /\ frames' = Append([frames EXCEPT ![Len(frames)].ip = @ + 2],
                                      [closure |-> callee.v, ip |-> 0,
                                       slot |-> slot])
                  /\ stack' = stack
                  /\ StackAt(stack', Last(frames').slot) = callee
                  /\ \A i \in 1..n :
                        StackAt(stack', Last(frames').slot + i) =
                            peek(Machine, n - i)]_vars

\* a function has just been entered with one argument
C8_Witness ==
    /\ result = "Running"
    /\ Len(frames) >= 2
    /\ Last(frames).ip = 0
    /\ StackLen(stack) = Last(frames).slot + 2
    /\ StackAt(stack, Last(frames).slot).t = "Closure"

\* C9: RETURN in a frame that is not the script's, with slot base s, removes
\* that frame and leaves the caller's frame as it was; every open upvalue
\* with location >= s is closed over the value of its slot and leaves the
\* list; the stack has depth s + 1, its top is the returned value and its
\* slots below s are unchanged.
C9_Return ==
    [][(At(OpReturn) /\ Len(frames) > 1) =>
          LET s == Last(frames).slot
              value == peek(Machine, 0)
          IN /\ result' = "Running"
             /\ frames' = Front(frames)
             /\ StackLen(stack') = s + 1
             /\ StackAt(stack', s) = value
             /\ StackTruncate(stack', s) = StackTruncate(stack, s)
             /\ open_upvalues' =
                    SelectSeq(open_upvalues, LAMBDA u : heap[u].location < s)
             /\ \A i \in 1..Len(open_upvalues) :
                    LET u == open_upvalues[i] IN
                    heap[u].location >= s =>
                        heap'[u].closed = Some(StackAt(stack, heap[u].location))]_vars

\* a function has returned and an upvalue over one of its locals is closed
C9_Witness ==
    /\ result = "Running"
    /\ out = <<>>
    /\ open_upvalues = <<>>
    /\ \E h \in 1..Len(heap) : heap[h].k = "Upvalue" /\ heap[h].closed.some

\* C10: CALL n on a class without init gives RuntimeError when n # 0; on a
\* class whose init has arity k # n it gives RuntimeError; on a class with an
\* init of arity n, while FRAME_MAX frames are active, it gives RuntimeError;
\* otherwise a fresh Instance of the class replaces the callee slot, and init
\* (if any) is entered with that slot as its slot 0.  A RETURN of an
\* initializer returns the instance in its slot 0, whatever the return
\* statement.
C10_ClassCall ==
    [][/\ (At(OpCall) /\ peek(Machine, CodeAt(Machine, 1)).t = "Class") =>
          LET n == CodeAt(Machine, 1)
              class == peek(Machine, n).v
              methods == heap[class].methods
              has_init == init_string \in DOMAIN methods
              slot == StackLen(stack) - n - 1
          IN IF ~has_init /\ n # 0 THEN result' = "RuntimeError"
             ELSE IF has_init
                     /\ heap[heap[methods[init_string].v].function].arity # n
             THEN result' = "RuntimeError"
             ELSE IF has_init /\ Len(frames) = FRAME_MAX
             THEN result' = "RuntimeError"
             ELSE /\ result' = "Running"
                  /\ Len(heap') = Len(heap) + 1
                  /\ heap'[Len(heap')] =
                        [k |-> "Instance", class |-> class, fields |-> TableNew]
                  /\ stack' = StackSet(stack, slot, Obj("Instance", Len(heap')))
                  /\ IF has_init
                     THEN /\ Len(frames') = Len(frames) + 1
                          /\ Last(frames') = [closure |-> methods[init_string].v,
                                              ip |-> 0, slot |-> slot]
                     ELSE Len(frames') = Len(frames)
       /\ (/\ At(OpReturn)
           /\ \E c \in 1..Len(heap) :
                 /\ heap[c].k = "Class"
                 /\ init_string \in DOMAIN heap[c].methods
                 /\ heap[c].methods[init_string].v = Last(frames).closure)
          => LET s == Last(frames).slot
             IN /\ StackAt(stack, s).t = "Instance"
                /\ StackLen(stack') = s + 1
                /\ StackAt(stack', s) = StackAt(stack, s)]_vars

\* the value of a call of an initializer that ends in a bare return has been
\* printed
C10_Witness == \E i \in 1..Len(out) : out[i] = "C instance"

\* C10 as stated: CALL n on a class without init gives RuntimeError when
\* n # 0; on a class whose init has arity k # n it gives RuntimeError;
\* otherwise, at any number of active frames, a fresh Instance of the class
\* replaces the callee slot, and init (if any) is entered with that slot as
\* its slot 0.  A RETURN of an initializer returns the instance in its slot
\* 0, whatever the return statement.
C10_ClassCallAtAnyDepth ==
    [][/\ (At(OpCall) /\ peek(Machine, CodeAt(Machine, 1)).t = "Class") =>
          LET n == CodeAt(Machine, 1)
              class == peek(Machine, n).v
              methods == heap[class].methods
              has_init == init_string \in DOMAIN methods
              slot == StackLen(stack) - n - 1
          IN IF ~has_init /\ n # 0 THEN result' = "RuntimeError"
             ELSE IF has_init
                     /\ heap[heap[methods[init_string].v].function].arity # n
             THEN result' = "RuntimeError"
             ELSE /\ result' = "Running"
                  /\ Len(heap') = Len(heap) + 1
                  /\ heap'[Len(heap')] =
                        [k |-> "Instance", class |-> class, fields |-> TableNew]
                  /\ stack' = StackSet(stack, slot, Obj("Instance", Len(heap')))
                  /\ IF has_init
                     THEN /\ Len(frames') = Len(frames) + 1
                          /\ Last(frames') = [closure |-> methods[init_string].v,
                                              ip |-> 0, slot |-> slot]
                     ELSE Len(frames') = Len(frames)
       /\ (/\ At(OpReturn)
           /\ \E c \in 1..Len(heap) :
                 /\ heap[c].k = "Class"
                 /\ init_string \in DOMAIN heap[c].methods
                 /\ heap[c].methods[init_string].v = Last(frames).closure)
          => LET s == Last(frames).slot
             IN /\ StackAt(stack, s).t = "Instance"
                /\ StackLen(stack') = s + 1
                /\ StackAt(stack', s) = StackAt(stack, s)]_vars

\* C11: a bound method runs with this (slot 0 of its frame) equal to the
\* receiver it was bound to.  The receiver and the method of a BoundMethod
\* never change; a CALL of a bound method, and an INVOKE of a field that
\* holds a bound method, enter the bound method's closure with the bound
\* receiver in slot 0, whatever instance the field belongs to.
C11_BoundReceiver ==
    [][/\ \A h \in 1..Len(heap) :
             heap[h].k = "BoundMethod" => (h <= Len(heap') /\ heap'[h] = heap[h])
       /\ (/\ At(OpCall)
           /\ peek(Machine, CodeAt(Machine, 1)).t = "BoundMethod"
           /\ result' = "Running")
          => LET bound == heap[peek(Machine, CodeAt(Machine, 1)).v]
             IN /\ Len(frames') = Len(frames) + 1
                /\ Last(frames').closure = bound.method
                /\ Last(frames').slot = StackLen(stack) - CodeAt(Machine, 1) - 1
                /\ StackAt(stack', Last(frames').slot) = bound.receiver
       /\ (/\ At(OpInvoke)
           /\ peek(Machine, CodeAt(Machine, 2)).t = "Instance"
           /\ LET fields == heap[peek(Machine, CodeAt(Machine, 2)).v].fields
                  name == read_string(Machine, 1)
              IN name \in DOMAIN fields /\ fields[name].t = "BoundMethod"
           /\ result' = "Running")
          => LET fields == heap[peek(Machine, CodeAt(Machine, 2)).v].fields
                 bound == heap[fields[read_string(Machine, 1)].v]
             IN /\ Len(frames') = Len(frames) + 1
                /\ Last(frames').closure = bound.method
                /\ Last(frames').slot = StackLen(stack) - CodeAt(Machine, 2) - 1
                /\ StackAt(stack', Last(frames').slot) = bound.receiver]_vars

\* b.get() has entered the method bound to the instance with n = 1, through
\* the field get of the instance b with n = 3, after the variable that held
\* the receiver was assigned another instance
C11_Witness ==
    /\ result = "Running"
    /\ out = <<"1", "2">>
    /\ Len(frames) = 2
    /\ Last(frames).ip = 0
    /\ LET receiver == StackAt(stack, Last(frames).slot)
       IN /\ receiver.t = "Instance"
          /\ \E f \in DOMAIN heap[receiver.v].fields :
                heap[f].s = "n" /\ heap[receiver.v].fields[f] = Number(1)

\* C12: GET_PROPERTY c on an instance that has a field c replaces the
\* instance on the stack by the value of the field, also when the class has
\* a method c; without such a field, and with a method c in the class, it
\* replaces the instance by a BoundMethod of that method whose receiver is
\* the instance; with neither, or on a value that is not an instance, the
\* run ends with RuntimeError.
C12_GetProperty ==
    [][At(OpGetProperty) =>
          LET value == peek(Machine, 0)
              name == read_string(Machine, 1)
              below == StackTruncate(stack, StackLen(stack) - 1)
          IN IF value.t # "Instance"
             THEN /\ result' = "RuntimeError"
                  /\ Last(err').msg = "Only instances have properties."
             ELSE LET instance == heap[value.v]
                      methods == heap[instance.class].methods
                  IN IF name \in DOMAIN instance.fields
                     THEN /\ result' = "Running"
                          /\ stack' = StackPush(below, instance.fields[name])
                          /\ heap' = heap
                     ELSE IF name \in DOMAIN methods
                     THEN /\ result' = "Running"
                          /\ StackLen(stack') = StackLen(stack)
                          /\ StackTruncate(stack', StackLen(stack) - 1) = below
                          /\ LET top == StackAt(stack', StackLen(stack') - 1)
                             IN /\ top.t = "BoundMethod"
                                /\ heap'[top.v] =
                                      [k |-> "BoundMethod", receiver |-> value,
                                       method |-> methods[name].v]
                     ELSE /\ result' = "RuntimeError"
                          /\ Last(err').msg =
                                "Undefined property '" \o heap[name].s \o "'."]_vars

\* the field get of an instance of a class that has a method get has been
\* read: the bound method stored in the field is on the stack, and it is
\* bound to another instance
C12_Witness ==
    /\ result = "Running"
    /\ out = <<"1", "2", "1", "3", "true", "false">>
    /\ stack # <<>>
    /\ LET top == StackAt(stack, StackLen(stack) - 1)
       IN /\ top.t = "BoundMethod"
          /\ \E g \in DOMAIN globals :
                /\ heap[g].s = "b"
                /\ globals[g].t = "Instance"
                /\ globals[g] # heap[top.v].receiver
                /\ \E f \in DOMAIN heap[globals[g].v].fields :
                      heap[f].s = "get" /\ heap[globals[g].v].fields[f] = top

\* The declarations `class D < S` of the sources, as pairs of names
SuperclassNames ==
    UNION {UNION {{[sub |-> session[j][i + 1], super |-> session[j][i + 3]] :
                      i \in {i \in 1..(Len(session[j]) - 3) :
                                /\ session[j][i] = "class"
                                /\ session[j][i + 2] = "<"}} :
                  j \in 1..Len(session)} :
           session \in Sessions}

\* The class on top of the stack is the superclass named in the declaration
\* of the class that declares the running method: that class has the running
\* closure in its method table, and the superclass has not
IsDeclaredSuperclass(superclass) ==
    /\ superclass.t = "Class"
    /\ LET running == Last(frames).closure
           MethodsOf(c) == {heap[c].methods[x].v : x \in DOMAIN heap[c].methods}
       IN /\ running \notin MethodsOf(superclass.v)
          /\ \E c \in 1..Len(heap) :
                /\ heap[c].k = "Class"
                /\ running \in MethodsOf(c)
                /\ [sub |-> heap[heap[c].name].s,
                    super |-> heap[heap[superclass.v].name].s] \in SuperclassNames

\* C13: in a method declared in `class B < A`, super.m(args) and super.m
\* look m up in the method table of A, whatever the class of the receiver
\* and whether or not B declares m, and run or bind it with this equal to
\* the receiver of the running method.
C13_Super ==
    [][/\ At(OpSuperInvoke) =>
             LET n == CodeAt(Machine, 2)
                 name == read_string(Machine, 1)
                 superclass == peek(Machine, 0)
                 receiver == StackAt(stack, Last(frames).slot)
                 methods == heap[superclass.v].methods
             IN /\ IsDeclaredSuperclass(superclass)
                /\ peek(Machine, n + 1) = receiver
                /\ IF /\ name \in DOMAIN methods
                      /\ heap[heap[methods[name].v].function].arity = n
                      /\ Len(frames) < FRAME_MAX
                   THEN /\ result' = "Running"
                        /\ Len(frames') = Len(frames) + 1
                        /\ Last(frames').closure = methods[name].v
                        /\ Last(frames').slot = StackLen(stack) - n - 2
                        /\ StackAt(stack', Last(frames').slot) = receiver
                   ELSE result' = "RuntimeError"
       /\ At(OpGetSuper) =>
             LET name == read_string(Machine, 1)
                 superclass == peek(Machine, 0)
                 receiver == StackAt(stack, Last(frames).slot)
                 methods == heap[superclass.v].methods
             IN /\ IsDeclaredSuperclass(superclass)
                /\ peek(Machine, 1) = receiver
                /\ IF name \in DOMAIN methods
                   THEN /\ result' = "Running"
                        /\ StackLen(stack') = StackLen(stack) - 1
                        /\ LET top == StackAt(stack', StackLen(stack') - 1)
                           IN /\ top.t = "BoundMethod"
                              /\ heap'[top.v] =
                                    [k |-> "BoundMethod", receiver |-> receiver,
                                     method |-> methods[name].v]
                   ELSE result' = "RuntimeError"]_vars

\* super.m() in the method test of Q, which declares m, has entered the m of
\* P with an instance of R, which declares m too, as this
C13_Witness ==
    /\ result = "Running"
    /\ out = <<>>
    /\ Len(frames) = 3
    /\ Last(frames).ip = 0
    /\ heap[heap[heap[Last(frames).closure].function].name].s = "m"
    /\ LET receiver == StackAt(stack, Last(frames).slot)
           ClassNamed(n) == CHOOSE c \in 1..Len(heap) :
                               heap[c].k = "Class" /\ heap[heap[c].name].s = n
       IN /\ receiver.t = "Instance"
          /\ heap[receiver.v].class = ClassNamed("R")
          /\ \E x \in DOMAIN heap[ClassNamed("P")].methods :
                heap[ClassNamed("P")].methods[x].v = Last(frames).closure

\* The classes of the heap
Classes(h) == {c \in 1..Len(h) : h[c].k = "Class"}

\* C14: INHERIT with a superclass that is not a class ends the run with
\* RuntimeError; otherwise it gives the subclass every method the superclass
\* holds and leaves the superclass as it is.  METHOD sets one name in the
\* table of the class being declared, replacing an inherited method of that
\* name, and no other step changes a method table.  So when interpret has
\* returned, a class declared as `class B < A` has a method for every name A
\* has one for.
C14_Inherit ==
    [][/\ At(OpInherit) =>
             IF peek(Machine, 1).t # "Class"
             THEN /\ result' = "RuntimeError"
                  /\ Last(err').msg = "Superclass must be a class."
             ELSE LET superclass == peek(Machine, 1).v
                      subclass == peek(Machine, 0).v
                      inherited == heap[superclass].methods
                  IN /\ result' = "Running"
                     /\ DOMAIN heap'[subclass].methods =
                            DOMAIN heap[subclass].methods \cup DOMAIN inherited
                     /\ \A x \in DOMAIN inherited :
                            heap'[subclass].methods[x] = inherited[x]
                     /\ heap'[superclass] = heap[superclass]
                     /\ \A c \in Classes(heap) \ {subclass} : heap'[c] = heap[c]
                     /\ stack' = StackTruncate(stack, StackLen(stack) - 1)
       /\ At(OpMethod) =>
             LET class == peek(Machine, 1).v
                 name == read_string(Machine, 1)
             IN /\ peek(Machine, 1).t = "Class"
                /\ DOMAIN heap'[class].methods =
                       DOMAIN heap[class].methods \cup {name}
                /\ heap'[class].methods[name] = peek(Machine, 0)
                /\ \A x \in DOMAIN heap[class].methods \ {name} :
                       heap'[class].methods[x] = heap[class].methods[x]
                /\ \A c \in Classes(heap) \ {class} : heap'[c] = heap[c]
       /\ ~(At(OpInherit) \/ At(OpMethod)) =>
             \A c \in Classes(heap) : c <= Len(heap') /\ heap'[c] = heap[c]
       /\ result' = "Ok" =>
             \A b, a \in Classes(heap') :
                [sub |-> heap'[heap'[b].name].s,
                 super |-> heap'[heap'[a].name].s] \in SuperclassNames
                    => DOMAIN heap'[a].methods \subseteq DOMAIN heap'[b].methods]_vars

\* `class R < Q { m() ... n() ... }` has been executed: R has the methods
\* test and get of Q, and its own m in the place of the m of Q
C14_Witness ==
    /\ result = "Ok"
    /\ \E r, q \in Classes(heap) :
          /\ heap[heap[r].name].s = "R"
          /\ heap[heap[q].name].s = "Q"
          /\ \E x, y \in DOMAIN heap[q].methods :
                /\ heap[x].s = "test"
                /\ heap[y].s = "m"
                /\ heap[r].methods[x] = heap[q].methods[x]
                /\ heap[r].methods[y] # heap[q].methods[y]

\* The closures a program can still call: those held by a global variable,
\* by a stack slot or by an active frame
LiveClosures ==
    {globals[n].v : n \in {x \in DOMAIN globals : globals[x].t = "Closure"}}
    \cup {StackAt(stack, i).v :
             i \in {j \in 0..StackLen(stack) - 1 : StackAt(stack, j).t = "Closure"}}
    \cup {frames[i].closure : i \in 1..Len(frames)}
\* The upvalues of those closures that are not closed yet
LiveOpenUpvalues ==
    {u \in UNION {{heap[c].upvalues[i] : i \in 1..Len(heap[c].upvalues)} :
                     c \in LiveClosures} : ~heap[u].closed.some}

\* C15: two closures that capture the same variable hold the same upvalue,
\* and upvalues of different variables never stand for the same stack slot:
\* two different upvalues that are still open have different locations.
\* GET_UPVALUE pushes the value of the upvalue of the running closure (its
\* closed value, or the value of its stack slot while it is open) and
\* SET_UPVALUE stores the top of the stack there; the value of a closed
\* upvalue changes by no other step than a SET_UPVALUE through it.
C15_SharedUpvalue ==
    [][/\ \A u1, u2 \in LiveOpenUpvalues' :
              u1 # u2 => heap'[u1].location # heap'[u2].location
       /\ At(OpGetUpvalue) =>
              LET u == heap[current_closure(Machine).upvalues[CodeAt(Machine, 1) + 1]]
              IN /\ result' = "Running"
                 /\ StackLen(stack') = StackLen(stack) + 1
                 /\ StackAt(stack', StackLen(stack)) =
                        IF u.closed.some THEN u.closed.val
                        ELSE StackAt(stack, u.location)
                 /\ heap' = heap
       /\ At(OpSetUpvalue) =>
              LET h == current_closure(Machine).upvalues[CodeAt(Machine, 1) + 1]
              IN /\ result' = "Running"
                 /\ IF heap[h].closed.some
                    THEN /\ heap'[h].closed = Some(peek(Machine, 0))
                         /\ stack' = stack
                    ELSE /\ StackAt(stack', heap[h].location) = peek(Machine, 0)
                         /\ heap' = heap
       /\ \A h \in 1..Len(heap) :
              (heap[h].k = "Upvalue" /\ heap[h].closed.some /\ heap'[h] # heap[h]) =>
                  /\ At(OpSetUpvalue)
                  /\ h = current_closure(Machine).upvalues[CodeAt(Machine, 1) + 1]]_vars

\* C16: every upvalue in the open-upvalue list is open (closed = None) and
\* its location is below the depth of the value stack.
C16_OpenUpvaluesLive ==
    \A i \in 1..Len(open_upvalues) :
        /\ heap[open_upvalues[i]].k = "Upvalue"
        /\ heap[open_upvalues[i]].closed = None
        /\ heap[open_upvalues[i]].location < StackLen(stack)

\* two locals are captured and open, an upvalue closed earlier is in the heap
C16_Witness ==
    /\ result = "Running"
    /\ Len(open_upvalues) >= 2
    /\ \E h \in 1..Len(heap) : heap[h].k = "Upvalue" /\ heap[h].closed.some

\* C17: the open-upvalue list never holds two upvalues of one stack
\* location.  A CLOSURE instruction that captures the local at location loc
\* gives the closure the upvalue the list already holds for loc when there
\* is one; otherwise it gives it a new open upvalue of loc, which the list
\* then holds.
C17_OneUpvaluePerLocation ==
    [][/\ \A i, j \in 1..Len(open_upvalues') :
              i # j => heap'[open_upvalues'[i]].location #
                       heap'[open_upvalues'[j]].location
       /\ (At(OpClosure) /\ read_constant(Machine, 1).t = "Closure") =>
              LET fn == heap[read_constant(Machine, 1).v].function
                  made == heap'[StackAt(stack', StackLen(stack)).v]
              IN \A n \in 1..Len(heap[fn].upvalues) :
                     CodeAt(Machine, 2 * n) = 1 =>
                         LET loc == Last(frames).slot + CodeAt(Machine, 2 * n + 1)
                             held == {j \in 1..Len(open_upvalues) :
                                         heap[open_upvalues[j]].location = loc}
                         IN IF held # {}
                            THEN \E j \in held : made.upvalues[n] = open_upvalues[j]
                            ELSE /\ made.upvalues[n] > Len(heap)
                                 /\ heap'[made.upvalues[n]] =
                                        [k |-> "Upvalue", location |-> loc,
                                         closed |-> None]
                                 /\ \E j \in 1..Len(open_upvalues') :
                                        open_upvalues'[j] = made.upvalues[n]]_vars

\* two closures hold the same upvalue, which is still open
C17_Witness ==
    \E c1, c2 \in 1..Len(heap) :
        /\ c1 # c2
        /\ heap[c1].k = "Closure" /\ heap[c2].k = "Closure"
        /\ \E i \in 1..Len(heap[c1].upvalues), j \in 1..Len(heap[c2].upvalues) :
               /\ heap[c1].upvalues[i] = heap[c2].upvalues[j]
               /\ \E n \in 1..Len(open_upvalues) :
                      open_upvalues[n] = heap[c1].upvalues[i]

C19_CloseUpvalues ==
    [][(At(OpCloseUpvalue) \/ At(OpReturn)) =>
          LET last == IF At(OpReturn) THEN Last(frames).slot
                      ELSE StackLen(stack) - 1
          IN /\ open_upvalues' =
                    SelectSeq(open_upvalues, LAMBDA u : heap[u].location < last)
             /\ \A i \in 1..Len(open_upvalues) :
                    LET u == open_upvalues[i] IN
                    IF heap[u].location >= last
                    THEN /\ heap'[u].closed = Some(StackAt(stack, heap[u].location))
                         /\ heap'[u].location = heap[u].location
                    ELSE heap'[u] = heap[u]]_vars

\* an upvalue captured after two others has been closed while they stay open
C19_Witness ==
    /\ result = "Running"
    /\ Len(open_upvalues) >= 2
    /\ \E h \in 1..Len(heap) :
           /\ heap[h].k = "Upvalue" /\ heap[h].closed.some
           /\ \A i \in 1..Len(open_upvalues) : open_upvalues[i] < h

\* C20: where the compiler ends a function with descriptors d[1..k], it adds
\* to the code of the enclosing function exactly CLOSURE, the index of a
\* constant that is a closure of that function, and k pairs, the n-th being
\* (1 if d[n].is_local else 0, d[n].index).  A CLOSURE instruction at ip on a
\* function with k descriptors pushes a closure of that function with k
\* upvalues and leaves the instruction pointer at ip + 2 + 2k, the byte after
\* the last pair.
C20_ClosureOperands ==
    [][/\ (/\ result = "Compiling" /\ parser.ks # <<>>
           /\ Last(parser.ks).k = "function_end" /\ result' = "Compiling") =>
              LET d == Cur(parser).function.upvalues
                  code == parser.comps[Len(parser.comps) - 1].function.code
                  constants == parser.comps[Len(parser.comps) - 1].function.constants
                  after == Cur(parser').function
                  at == Len(code)
              IN /\ Len(parser'.comps) = Len(parser.comps) - 1
                 /\ Len(after.code) = at + 2 + 2 * Len(d)
                 /\ SubSeq(after.code, 1, at) = code
                 /\ after.code[at + 1] = OpClosure
                 /\ Len(constants) <= U8_MAX =>
                        LET made == after.constants[after.code[at + 2] + 1]
                        IN /\ made.t = "Closure"
                           /\ heap'[heap'[made.v].function].upvalues = d
                 /\ \A n \in 1..Len(d) :
                        /\ after.code[at + 1 + 2 * n] = (IF d[n].is_local THEN 1 ELSE 0)
                        /\ after.code[at + 2 + 2 * n] = d[n].index
       /\ (At(OpClosure) /\ read_constant(Machine, 1).t = "Closure") =>
              LET fn == heap[read_constant(Machine, 1).v].function
                  k == Len(heap[fn].upvalues)
                  made == StackAt(stack', StackLen(stack))
              IN /\ result' = "Running"
                 /\ StackLen(stack') = StackLen(stack) + 1
                 /\ made.t = "Closure"
                 /\ heap'[made.v].k = "Closure"
                 /\ heap'[made.v].function = fn
                 /\ Len(heap'[made.v].upvalues) = k
                 /\ \A n \in 1..k : heap'[heap'[made.v].upvalues[n]].k = "Upvalue"
                 /\ Len(frames') = Len(frames)
                 /\ Last(frames').ip = Last(frames).ip + 2 + 2 * k]_vars

\* a closure with two upvalues has been built, one of them taken from the
\* enclosing closure
C20_Witness ==
    /\ result = "Running"
    /\ StackLen(stack) > 0
    /\ LET top == StackAt(stack, StackLen(stack) - 1)
       IN /\ top.t = "Closure"
          /\ Len(heap[top.v].upvalues) >= 2
          /\ Len(heap[top.v].upvalues) = Len(heap[heap[top.v].function].upvalues)
          /\ \E n \in 1..Len(heap[top.v].upvalues) :
                 ~heap[heap[top.v].function].upvalues[n].is_local

\* C21: SET_GLOBAL on a name that is not a key of globals gives RuntimeError
\* with the message "Undefined variable '<name>'." and leaves globals as it
\* was; on a name that is a key it replaces the value of that key alone by the
\* top of the stack and leaves the stack as it was, the assigned value on top.
C21_SetGlobal ==
    [][At(OpSetGlobal) =>
          LET name == read_string(Machine, 1)
              value == peek(Machine, 0)
          IN IF name \in DOMAIN globals
             THEN /\ result' = "Running"
                  /\ globals' = [globals EXCEPT ![name] = value]
                  /\ stack' = stack
                  /\ StackAt(stack', StackLen(stack') - 1) = value
                  /\ Last(frames').ip = Last(frames).ip + 2
             ELSE /\ result' = "RuntimeError"
                  /\ globals' = globals
                  /\ Len(err') = Len(err) + 1
                  /\ Last(err').msg =
                         "Undefined variable '" \o heap[name].s \o "'."]_vars

\* the assignment x = 1 has failed after print x had: x is still undefined
C21_Witness ==
    /\ result = "RuntimeError"
    /\ Len(err) = 2
    /\ err[1].msg = "Undefined variable 'x'."
    /\ err[2].msg = "Undefined variable 'x'."
    /\ \A n \in DOMAIN globals : heap[n].s # "x"

\* C22: in the programs of SessionsLogical, which print the operator, a and b
\* and then  a <op> f()  where f prints B and returns b:  for and, f runs
\* exactly when a is truthy (not nil, not false) and the value printed is b
\* then and a otherwise; for or, f runs exactly when a is falsey and the value
\* printed is b then and a otherwise.  The value of the expression is the only
\* one on the stack above the script's slot when it is printed, and
\* JUMP_IF_FALSE leaves the stack as it was.
C22_ShortCircuit ==
    [][/\ (result' = "Ok" /\ out' # <<>> /\ out'[1] \in {"and", "or"}) =>
              LET a == out'[2]
                  b == out'[3]
                  truthy == a \notin {"nil", "false"}
                  evaluated == (out'[1] = "and") = truthy
              IN out' = <<out'[1], a, b>> \o
                        (IF evaluated THEN <<"B", b>> ELSE <<a>>)
       /\ (/\ At(OpPrint) /\ Len(frames) = 1
           /\ Len(out) >= 3 /\ out[1] \in {"and", "or"}) =>
              /\ StackLen(stack) = 2
              /\ StackLen(stack') = 1
       /\ At(OpJumpIfFalse) =>
              /\ stack' = stack
              /\ Last(frames').ip = Last(frames).ip + 3 +
                     (IF is_falsey(peek(Machine, 0)) THEN Short(Machine) ELSE 0)]_vars

\* a falsey left operand of or: the right operand has run and given the value
C22_Witness ==
    /\ result = "Ok"
    /\ out = <<"or", "false", "0", "B", "0">>
\* a falsey left operand of and: the right operand has not run
C22_WitnessAnd ==
    /\ result = "Ok"
    /\ out = <<"and", "nil", "s", "nil">>

\* C23: in the sessions of SessionsFor the first line runs a program around
\* for (init; cond; inc) body and the second line the same program around
\* { init; while (cond) { body inc; } }.  When the second line has ended, the
\* prints of the two lines are the same sequence (the programs print the
\* global and the field they write, in the loop and after it), neither line
\* has reported an error, and the stack and the frames are empty, as they
\* were after the first line.
C23_ForAsWhile ==
    [][(/\ out' # <<>> /\ out'[1] = "for"
        /\ result' \notin {"Compiling", "Running"}) =>
          /\ result' = "Ok"
          /\ err' = <<>>
          /\ stack' = <<>> /\ frames' = <<>>
          /\ input' = <<>> =>
                 LET n == Len(out') \div 2
                 IN /\ Len(out') = 2 * n
                    /\ SubSeq(out', 1, n) = SubSeq(out', n + 1, 2 * n)]_vars

\* both lines have run a loop with all three clauses, which ended by its
\* condition
C23_Witness ==
    /\ result = "Ok" /\ input = <<>>
    /\ out = <<"for", "1", "7", "nil", "3", "0",
               "for", "1", "7", "nil", "3", "0">>

\* The number of bytes of the instruction at offset i of function f: the
\* opcode and the operands the arm of VM::run reads for it (for OpClosure the
\* constant and one pair per upvalue of the constant's function)
InstructionSize(h, f, i) ==
    LET op == f.code[i + 1] IN
    IF op \in {OpConstant, OpGetLocal, OpSetLocal, OpGetGlobal, OpDefineGlobal,
               OpSetGlobal, OpGetUpvalue, OpSetUpvalue, OpGetProperty,
               OpSetProperty, OpGetSuper, OpCall, OpClass, OpMethod} THEN 2
    ELSE IF op \in {OpJump, OpJumpIfFalse, OpLoop, OpInvoke, OpSuperInvoke} THEN 3
    ELSE IF op = OpClosure
    THEN 2 + 2 * Len(h[h[f.constants[f.code[i + 2] + 1].v].function].upvalues)
    ELSE 1
\* The offsets of the first bytes of the instructions of f, from offset i on;
\* Len(f.code) is in the set exactly when the last instruction is complete
RECURSIVE InstructionStarts(_, _, _)
InstructionStarts(h, f, i) ==
    IF i >= Len(f.code) THEN {i}
    ELSE {i} \cup InstructionStarts(h, f, i + InstructionSize(h, f, i))
\* Every jump of f, applied as VM::run applies it, gives the offset of the
\* first byte of an instruction of f
JumpsLand(h, f) ==
    LET starts == InstructionStarts(h, f, 0) \ {Len(f.code)}
    IN /\ Len(f.code) \in InstructionStarts(h, f, 0)
       /\ \A i \in starts :
              LET short == f.code[i + 2] * 256 + f.code[i + 3]
              IN /\ f.code[i + 1] \in {OpJump, OpJumpIfFalse} =>
                        i + 3 + short \in starts
                 /\ f.code[i + 1] = OpLoop => i + 3 - short \in starts

\* C24: every Function object the compiler allocates while it has reported
\* no error (one at the end of each function body, the script's when compile
\* returns) has all its JUMP, JUMP_IF_FALSE and LOOP targets inside its code
\* and on the first byte of an instruction; and the instruction pointer of
\* the running frame is always on the first byte of an instruction.
C24_JumpTargets ==
    [][/\ \A f \in Len(heap) + 1..Len(heap') :
              (/\ heap'[f].k = "Function"
               /\ result = "Compiling"
               /\ ~parser.had_error
               /\ result' = "Compiling" => ~parser'.had_error) =>
                  JumpsLand(heap', heap'[f])
       /\ result' = "Running" =>
              Last(frames').ip \in
                  InstructionStarts(heap', heap'[heap'[Last(frames').closure].function], 0)
                      \ {Len(heap'[heap'[Last(frames').closure].function].code)}]_vars

\* a function has been compiled in which a LOOP jumps back over a CLOSURE
\* with two operand pairs, and which has a forward JUMP
C24_Witness ==
    \E f \in 1..Len(heap) :
        /\ heap[f].k = "Function"
        /\ JumpsLand(heap, heap[f])
        /\ \E i, j, c \in InstructionStarts(heap, heap[f], 0) \ {Len(heap[f].code)} :
               /\ heap[f].code[i + 1] = OpLoop
               /\ heap[f].code[j + 1] = OpJump
               /\ heap[f].code[c + 1] = OpClosure
               /\ InstructionSize(heap, heap[f], c) = 6
               /\ i + 3 - (heap[f].code[i + 2] * 256 + heap[f].code[i + 3]) < c
               /\ c < i

\* C25: a call of interpret that ends in CompileError or RuntimeError leaves
\* the value stack and the frames empty and the globals as they were at the
\* failing step; the next call that compiles starts with one frame, at slot
\* 0 and ip 0, over a stack that holds the script's closure alone; and a
\* program run after a failed call does not bring the VM down.
C25_Recovery ==
    [][/\ (/\ result \in {"Compiling", "Running"}
           /\ result' \in {"CompileError", "RuntimeError"}) =>
              /\ stack' = <<>>
              /\ frames' = <<>>
              /\ globals' = globals
       /\ (result = "Compiling" /\ result' = "Running") =>
              /\ Len(frames') = 1
              /\ frames'[1].slot = 0 /\ frames'[1].ip = 0
              /\ StackLen(stack') = 1
              /\ StackAt(stack', 0) = Obj("Closure", frames'[1].closure)
       /\ (result = "Running" /\ err # <<>>) => result' # "Panic"]_vars

\* C26: when the process has ended, its exit status is 64 if it was given
\* more than one argument; with one argument (the path of a file) it is 74
\* if the file could not be read, and otherwise 0, 65 or 70 as interpret
\* returned Ok, CompileError or RuntimeError.
C26_ExitCodes ==
    process.pc \in {"exited", "panicked"} =>
        IF Len(process.args) > 2 THEN process.exit = 64
        ELSE IF Len(process.args) = 2
        THEN IF ~Files[process.args[2]].some THEN process.exit = 74
             ELSE process.exit = (CASE result = "Ok" -> 0
                                    [] result = "CompileError" -> 65
                                    [] result = "RuntimeError" -> 70)
        ELSE TRUE

\* The source without its line comments: outside a string literal, the text
\* from // up to, not including, the next newline or the end is left out
RECURSIVE StripComments(_, _, _)
StripComments(text, i, in_string) ==
    IF i > Len(text) THEN <<>>
    ELSE IF in_string
    THEN <<text[i]>> \o StripComments(text, i + 1, text[i] # "\"")
    ELSE IF text[i] = "/" /\ i < Len(text) /\ text[i + 1] = "/"
    THEN LET ends == {j \in i..Len(text) : text[j] = "\n"} \cup {Len(text) + 1}
         IN StripComments(text, CHOOSE j \in ends : \A k \in ends : j <= k, FALSE)
    ELSE <<text[i]>> \o StripComments(text, i + 1, text[i] = "\"")
\* The kinds and lexemes of the tokens Scanner::next yields until None
RECURSIVE ScanAll(_)
ScanAll(S) ==
    LET r == scan_token(S) IN
    IF r.panic THEN <<"panic">>
    ELSE IF ~r.token.some THEN <<>>
    ELSE <<[kind |-> r.token.val.kind, value |-> r.token.val.value]>> \o ScanAll(r.s)

\* C27: when the scanner has yielded all the tokens of a source, their kinds
\* and lexemes are those of the tokens of the source without its line
\* comments.
C27_CommentsSkipped ==
    scan.phase = "Finished" =>
        [i \in 1..Len(scan.tokens) |->
            [kind |-> scan.tokens[i].kind, value |-> scan.tokens[i].value]]
        = ScanAll(ScannerFrom(StripComments(scan.scanner.text, 1, FALSE)))

\* C28: when the next character to scan is an opening double quote and the
\* scan of the token does not panic, the token is the Error token
\* 'Unterminated string.' exactly when no double quote follows before the end
\* of the input, and otherwise the String token of the text between the two
\* quotes.
C28_UnterminatedString ==
    LET S == scan.scanner
        r == scan_token(S)
        closing == {j \in (S.current + 2)..Len(S.text) : S.text[j] = "\""}
        first == CHOOSE j \in closing : \A k \in closing : j <= k
    IN (/\ scan.phase = "Scanning"
        /\ S.current < Len(S.text)
        /\ S.text[S.current + 1] = "\""
        /\ ~r.panic)
       => /\ r.token.some
          /\ IF closing = {}
             THEN r.token.val.kind = "Error" /\ r.token.val.value = "Unterminated string."
             ELSE /\ r.token.val.kind = "String"
                  /\ r.token.val.value = Join(SubSeq(S.text, S.current + 2, first - 1))

\* The objects the VM can reach from its roots
InUse == trace_references(heap, mark_roots(Machine), mark_roots(Machine))

\* C30: whatever collections the allocations of the VM have run, no object
\* that the VM can reach from its stack, its frames, its open upvalues, its
\* globals and the init string has been reclaimed: no handle in use dangles.
C30_NoDanglingHandle == \A h \in InUse : heap[h].k # "Free"

\* The strings that are allocated
LiveStrings == {h \in Allocated(heap) : heap[h].k = "String"}
\* a collection has reclaimed something
Collected == \E h \in 1..Len(heap) : heap[h].k = "Free"

\* C29: two allocated strings with the same contents are one object, so that
\* handles are equal exactly when contents are; and EQUAL on two strings,
\* literals or results of ADD, pushes true exactly when their contents are
\* equal.  Both hold whatever collections have run.
C29_Interning ==
    /\ [](\A h1, h2 \in LiveStrings : heap[h1].s = heap[h2].s => h1 = h2)
    /\ [][(DoOpEqual /\ peek(Machine, 1).t = "String" /\ peek(Machine, 0).t = "String")
            => StackAt(stack', StackLen(stack') - 1)
               = Bool(heap[peek(Machine, 1).v].s = heap[peek(Machine, 0).v].s)]_vars
\* collections have run, and the four comparisons of SessionGcObjects, of
\* results of + with each other and with a literal, have printed true
C29_Witness ==
    /\ Collected
    /\ result = "Ok"
    /\ out = <<"true", "true", "true", "true", "ac">>

C32_PanicMode ==
    [][CompileStep =>
        /\ parser.panic_mode => err' = err
        /\ (Last(parser.ks).k = "synchronize_loop" /\ Len(parser'.ks) < Len(parser.ks))
            => /\ \/ parser'.current.kind = "Eof"
                  \/ parser'.previous.kind = "Semicolon"
                  \/ parser'.current.kind \in {"Class", "Fun", "Var", "For", "If",
                                               "While", "Print", "Return"}
               /\ ~parser'.panic_mode]_vars

\* The step of the compiler about to be taken ends a scope
EndsScope ==
    /\ result = "Compiling"
    /\ parser.ks # <<>>
    /\ \/ Last(parser.ks).k \in {"block_statement_end", "for_end"}
       \/ /\ Last(parser.ks).k = "class_body"
          /\ check(parser, "RightBrace") \/ check(parser, "Eof")
          /\ Last(parser.classes).has_superclass
\* The locals of the scope that ends, lowest slot first
ScopeLocals(C) == SelectSeq(C.locals, LAMBDA l : l.depth > C.scope_depth - 1)
\* One CLOSE_UPVALUE or POP per local of the scope, highest slot first
EndOfScopeCode(C) ==
    Reverse([i \in 1..Len(ScopeLocals(C)) |->
                IF ScopeLocals(C)[i].is_captured THEN OpCloseUpvalue ELSE OpPop])

\* C33: slot numbers agree with the stack.  While run is under way the stack
\* holds slot 0 of the running frame; GET_LOCAL s and SET_LOCAL s address a
\* slot frame.slot + s below the depth of the stack, and in SessionSlots,
\* where every local is given the number of its slot, GET_LOCAL s pushes s
\* and SET_LOCAL s stores s; the step that ends a scope appends to the code
\* one CLOSE_UPVALUE (captured) or POP per local of the scope, highest slot
\* first, and takes these locals off the compiler's list.
C33_SlotsAgree ==
    /\ []((result = "Running" /\ FrameLive) => StackLen(stack) > Last(frames).slot)
    /\ [][(DoOpGetLocal \/ DoOpSetLocal) =>
            /\ Last(frames).slot + CodeAt(Machine, 1) < StackLen(stack)
            /\ (out # <<>> /\ out[1] = "slots") =>
                  peek([stack |-> stack'], 0) = Number(CodeAt(Machine, 1))]_vars
    /\ [][(CompileStep /\ EndsScope) =>
            LET C == Cur(parser)
                n == Len(ScopeLocals(C))
                code == Cur(parser').function.code
            IN /\ Len(code) >= n
               /\ SubSeq(code, Len(code) - n + 1, Len(code)) = EndOfScopeCode(C)
               /\ Cur(parser').locals = SubSeq(C.locals, 1, Len(C.locals) - n)]_vars
\* SessionSlots has run to its end: every read and write of a local gave the
\* number of its slot, and the scopes with captured locals were closed
C33_Witness ==
    /\ result = "Ok"
    /\ out = <<"slots", "4", "7", "5", "5", "9", "3">>

\* The names of the locals of the scope the compiler C is in: those declared
\* at its depth, and the one whose initializer is being compiled
SameScopeNames(C) ==
    {C.locals[i].name :
        i \in {j \in 1..Len(C.locals) :
                  C.locals[j].depth = C.scope_depth \/ C.locals[j].depth = -1}}
AlreadyDeclared == "Already a variable with this name in this scope."

\* C34: in every state of a compile inside a scope, with an identifier as the
\* previous token and no error pending, declaring that identifier reports
\* 'Already a variable with this name in this scope.' exactly when a local of
\* the same scope has that name, and reports nothing when only locals of
\* enclosing scopes have it; the local is added in both cases.  In
\* SessionRedeclare the five lines that declare a parameter, a function, a
\* class or a variable twice report that error, and in the last line each
\* name read is the innermost declaration until its scope ends.
C34_Redeclaration ==
    /\ [](  (/\ result = "Compiling"
             /\ Cur(parser).scope_depth > 0
             /\ parser.previous.kind = "Identifier"
             /\ ~parser.panic_mode)
          => LET C == Cur(parser)
                 name == parser.previous.value
                 Q == declare_variable(parser)
             IN /\ [i \in 1..Len(Q.diags) |-> Q.diags[i].msg]
                   = IF name \in SameScopeNames(C) THEN <<AlreadyDeclared>> ELSE <<>>
                /\ Q.had_error = (parser.had_error \/ name \in SameScopeNames(C))
                /\ Len(C.locals) <= U8_MAX
                      => Cur(Q).locals = Append(C.locals, Local(name, -1)))
    /\ []((result = "Ok" /\ out # <<>> /\ out[1] = "shadow")
          => /\ out \in {SubSeq(<<"shadow", "2", "1", "3", "4">>, 1, n) : n \in 1..5}
             /\ Len(SelectSeq(err, LAMBDA e : e.msg = AlreadyDeclared)) = 5)
\* SessionRedeclare has run to its end
C34_Witness ==
    /\ result = "Ok"
    /\ out = <<"shadow", "2", "1", "3", "4">>
    /\ Len(SelectSeq(err, LAMBDA e : e.msg = AlreadyDeclared)) = 5

\* The names of the locals of the compilers of a chain
LocalNames(comps) ==
    UNION {{comps[l].locals[i].name : i \in 1..Len(comps[l].locals)} :
              l \in 1..Len(comps)} \ {""}
\* The levels below lvl whose compiler has a local called name
Owners(comps, lvl, name) ==
    {l \in 1..(lvl - 1) : \E i \in 1..Len(comps[l].locals) : comps[l].locals[i].name = name}
\* The index, from 0, of the first descriptor d among the upvalues ups, or -1
DescriptorIndex(ups, d) ==
    IF \E i \in 1..Len(ups) : ups[i] = d
    THEN Min({i \in 1..Len(ups) : ups[i] = d}) - 1 ELSE -1
\* The descriptor the function at level j must hold for the local in slot
\* slot of the function at level k < j, given the compilers after resolving
RECURSIVE Descriptor(_, _, _, _)
Descriptor(comps, k, slot, j) ==
    IF j = k + 1 THEN [index |-> slot, is_local |-> TRUE]
    ELSE [index |-> DescriptorIndex(comps[j - 1].function.upvalues,
                                    Descriptor(comps, k, slot, j - 1)),
          is_local |-> FALSE]

\* C35: in every state of a compile of a nested function, resolving as an
\* upvalue a name that is not a local of the current function: when no
\* enclosing function has a local of that name nothing is found and nothing
\* changes; otherwise, with k the innermost enclosing function that has one,
\* that local is marked captured, the function at k + 1 holds the descriptor
\* {its slot, is_local: true}, each function further in holds {the index of
\* the descriptor of the function around it, is_local: false}, a function
\* gains at most one descriptor, the index returned is that of the
\* descriptor of the current function, and resolving the name again returns
\* the same index and changes nothing.
C35_ResolveUpvalue ==
    (result = "Compiling" /\ Len(parser.comps) >= 2) =>
        \A name \in LocalNames(parser.comps) :
            LET comps == parser.comps
                lvl == Len(comps)
                r == compiler_resolve_upvalue(comps, lvl, name)
                owners == Owners(comps, lvl, name)
                k == Max(owners)
                slot == Max({i \in 1..Len(comps[k].locals) :
                                comps[k].locals[i].name = name}) - 1
                again == compiler_resolve_upvalue(r.comps, lvl, name)
            IN compiler_resolve_local(comps[lvl], name).found
               \/ IF owners = {}
                  THEN ~r.found /\ r.comps = comps
                  ELSE /\ r.found
                       /\ r.comps[k].locals[slot + 1].is_captured
                       /\ \A j \in (k + 1)..lvl :
                            LET before == comps[j].function.upvalues
                                after == r.comps[j].function.upvalues
                                d == Descriptor(r.comps, k, slot, j)
                            IN /\ DescriptorIndex(after, d) >= 0
                               /\ after = before \/ after = Append(before, d)
                       /\ r.idx = DescriptorIndex(r.comps[lvl].function.upvalues,
                                                  Descriptor(r.comps, k, slot, lvl))
                       /\ again.idx = r.idx
                       /\ again.comps = r.comps
\* the compiler of a function two levels inside the function that owns a
\* captured local holds a descriptor that is not local, and the function
\* between them one that is
C35_Witness ==
    /\ result = "Compiling"
    /\ Len(parser.comps) >= 3
    /\ \E d \in {Last(parser.comps).function.upvalues[i] :
                    i \in 1..Len(Last(parser.comps).function.upvalues)} :
          /\ ~d.is_local
          /\ LET ups == parser.comps[Len(parser.comps) - 1].function.upvalues
             IN d.index < Len(ups) /\ ups[d.index + 1].is_local

\* C36: the count of the arguments of a call never overflows its 8 bits:
\* each step of the loop of argument_list adds 1 to a count below 255, and the
\* compile goes on.
C36_ArgumentCount ==
    [][(CompileStep /\ Last(parser.ks).k = "argument_list_loop")
        => /\ Last(parser.ks).arg_count + 1 <= U8_MAX
           /\ result' = "Compiling"]_vars

\* The operands of the OpInvoke at the ip, and the receiver under the arguments
InvokeName == read_string(Machine, 1)
InvokeArgs == CodeAt(Machine, 2)
InvokeResolves ==
    /\ At(OpInvoke)
    /\ peek(Machine, InvokeArgs).t = "Instance"
    /\ LET instance == heap[peek(Machine, InvokeArgs).v] IN
          \/ InvokeName \in DOMAIN instance.fields
          \/ /\ InvokeName \in DOMAIN heap[instance.class].methods
             /\ heap[instance.class].methods[InvokeName].t = "Closure"
RECURSIVE PushAll(_, _)
PushAll(M, values) ==
    IF values = <<>> THEN M ELSE PushAll(push(M, Head(values)), Tail(values))
\* OpGetProperty of the same name on the receiver alone, then the arguments,
\* then OpCall of the same count
GetPropertyThenCall ==
    LET args == [i \in 1..InvokeArgs |-> peek(Machine, InvokeArgs - i)]
        receiver == [Machine EXCEPT
                        !.stack = StackTruncate(@, StackLen(@) - InvokeArgs)]
        callee == PushAll(op_get_property(receiver), args)
    IN call_value(Skip(callee, 1), peek(callee, InvokeArgs), InvokeArgs)

\* C37: OpInvoke on an instance whose property resolves leaves the frames, the
\* stack, the globals, the open upvalues, the output and the outcome as
\* OpGetProperty followed by OpCall does, and the heap too but for the bound
\* method that OpGetProperty allocates for a method; a field comes before a
\* method of the same name in both.
C37_InvokeRefines ==
    InvokeResolves =>
        LET A == op_invoke(Machine)
            B == GetPropertyThenCall
            instance == heap[peek(Machine, InvokeArgs).v]
        IN /\ A.frames = B.frames /\ A.stack = B.stack /\ A.globals = B.globals
           /\ A.open_upvalues = B.open_upvalues /\ A.out = B.out
           /\ A.ok = B.ok /\ A.err = B.err /\ A.panic = B.panic
           /\ IF InvokeName \in DOMAIN instance.fields
              THEN A.heap = B.heap
              ELSE /\ B.heap = Append(A.heap,
                          [k |-> "BoundMethod",
                           receiver |-> peek(Machine, InvokeArgs),
                           method |-> heap[instance.class].methods[InvokeName].v])
                   /\ A.heap = heap
\* An invocation of a field that hides a method of its name
C37_Witness ==
    /\ InvokeResolves
    /\ LET instance == heap[peek(Machine, InvokeArgs).v] IN
          /\ InvokeName \in DOMAIN instance.fields
          /\ InvokeName \in DOMAIN heap[instance.class].methods
    /\ InvokeArgs > 0

\* C38: OpEqual on two copies of one value pushes true.
C38_EqualReflexive ==
    [][(DoOpEqual /\ peek(Machine, 1) = peek(Machine, 0))
        => StackAt(stack', StackLen(stack') - 1) = Bool(TRUE)]_vars

\* The upvalues of the closures that can be reached from the globals table
GlobalUpvalues ==
    {h \in trace_references(heap, TableRefs(globals), TableRefs(globals)) :
        heap[h].k = "Upvalue"}

\* C39: at every point of a sequence of interpret calls, each upvalue of a
\* closure that can be reached from the globals is closed, or is in the list
\* of open upvalues with its location below the depth of the stack.
C39_GlobalUpvaluesLive ==
    \A u \in GlobalUpvalues :
        \/ heap[u].closed.some
        \/ /\ \E i \in 1..Len(open_upvalues) : open_upvalues[i] = u
           /\ heap[u].location < StackLen(stack)

\* C40: the loop of repl ends at the end of the standard input: the turn in
\* which read_line finds no more input leaves the loop and hands no line to
\* interpret.
C40_ReplEndsAtEof ==
    [][(repl /\ process.stdin.lines = <<>>)
        => (process'.pc = "exited" /\ input' = <<>>)]_vars

====
